---- MODULE Spec2Model ----
(***************************************************************************)
(* Copr build-lifecycle handlers of packit-service                          *)
(* (packit_service/worker/handlers/copr.py): CoprBuildStartHandler,         *)
(* CoprBuildEndHandler and ScanHelper, as a state machine over the stored   *)
(* SRPM record and the per-target build records of one Copr build.          *)
(*                                                                         *)
(* Every handler run is a sequence of steps, one per record read, record    *)
(* field update or external call, so that redelivery, out-of-order delivery *)
(* and two workers handling callbacks at once can be explored.              *)
(***************************************************************************)
EXTENDS Integers, Sequences, FiniteSets, TLC

\* ------------------------------------------------------------------ bounds
\* Callbacks delivered in one behaviour of the sequential specification.
MaxDeliveries == 2
\* External calls that raise in one behaviour.
MaxFaults == 1

\* --------------------------------------------------------------- constants
None == "None"

COPR_SRPM_CHROOT == "srpm-builds"
ScanTarget == "fedora-rawhide-x86_64"
OtherTarget == "fedora-stable-x86_64"
Targets == {ScanTarget, OtherTarget}
Chroots == {COPR_SRPM_CHROOT} \cup Targets

COPR_API_SUCC_STATE == "succeeded"
COPR_API_FAIL_STATE == "failed"

\* BuildStatus values the handlers read or write.
WaitingForSrpm == "waiting_for_srpm"
Pending == "pending"
Success == "success"
Failure == "failure"

\* BaseCommitStatus values.
StRunning == "running"
StPending == "pending"
StSuccess == "success"
StFailure == "failure"

Workers == {1, 2}
SeqWorkers == {1}

\* Copr callback timestamps: 0 is the falsy "no timestamp".
Timestamps == {0, 1}

\* The callbacks a worker can be handed: start and end of every chroot of the
\* build, and callbacks whose build id has no stored record.
Events ==
    [kind : {"start"}, chroot : Chroots, status : {"running"},
     timestamp : Timestamps, known : {TRUE}]
    \cup
    [kind : {"end"}, chroot : Chroots,
     status : {COPR_API_SUCC_STATE, COPR_API_FAIL_STATE},
     timestamp : Timestamps \ {0}, known : {TRUE}]
    \cup
    [kind : {"start", "end"}, chroot : {COPR_SRPM_CHROOT, ScanTarget},
     status : {COPR_API_FAIL_STATE}, timestamp : {1}, known : {FALSE}]

\* The event CoprBuildHandler reacts to: a build is asked for.
BuildEvent ==
    [kind |-> "build", chroot |-> None, status |-> None, timestamp |-> 1,
     known |-> TRUE]

NoEvent ==
    [kind |-> None, chroot |-> None, status |-> None, timestamp |-> 0,
     known |-> FALSE]

VARIABLES
    srpm,       \* the SRPMBuildModel row of the build
    target,     \* the CoprBuildTargetModel row of every target of the build
    pc,         \* per worker: the statement its handler is at
    ev,         \* per worker: the callback it is handling
    loc,        \* per worker: the handler's local values
    result,     \* per worker: the TaskResults of its last finished run
    pre,        \* per worker: what the stores held when its run began
    reports,    \* status reports sent to the forge, in order
    comments,   \* comments posted on the pull request, in order
    counters,   \* pushgateway counters
    tasks,      \* testing-farm tasks enqueued, in order
    scan,       \* effects of the scan orchestrator outside the records
    steve,      \* the release pipeline: records created, results returned
    budget,     \* callbacks that may still be delivered
    faults      \* external calls that may still raise

vars ==
    <<srpm, target, pc, ev, loc, result, pre, reports, comments, counters, tasks,
      scan, steve, budget, faults>>

\* ----------------------------------------------------------------- helpers
\* datetime.utcfromtimestamp(timestamp) if timestamp else None
ToTime(timestamp) == IF timestamp # 0 THEN ToString(timestamp) ELSE None

\* BuildStatus.is_final_state
IsFinalState(status) == status \in {Success, Failure}

\* self.build: the SRPM row for the SRPM chroot, the target row otherwise.
BuildOf(e) == IF e.chroot = COPR_SRPM_CHROOT THEN srpm ELSE target[e.chroot]

BuildCheck(t) == [kind |-> "rpm-build", chroot |-> t]
TestCheck(t) == [kind |-> "testing-farm", chroot |-> t]
ScanCheck == [kind |-> "osh-diff-scan", chroot |-> ScanTarget]

\* The targets in the order the helper walks them.
TargetSeq == <<ScanTarget, OtherTarget>>

RECURSIVE MapSeq(_, _, _)
\* One report per check name, in order.
MapSeq(checks, i, r) ==
    IF i > Len(checks) THEN <<>>
    ELSE <<[r EXCEPT !.check = checks[i]]>> \o MapSeq(checks, i + 1, r)

Report(checks, state, desc, url) ==
    MapSeq(checks, 1, [check |-> None, state |-> state, desc |-> desc,
                        url |-> url])

\* CoprBuildJobHelper.report_status_to_build
ChecksBuild == [i \in 1..Len(TargetSeq) |-> BuildCheck(TargetSeq[i])]
\* the test-job checks of every target
ChecksTests == [i \in 1..Len(TargetSeq) |-> TestCheck(TargetSeq[i])]
\* CoprBuildJobHelper.report_status_to_all
ChecksAll == ChecksBuild \o ChecksTests
\* CoprBuildJobHelper.report_status_to_build_for_chroot
ChecksBuildForChroot(c) == <<BuildCheck(c)>>
\* CoprBuildJobHelper.report_status_to_all_test_jobs_for_chroot
ChecksTestsForChroot(c) == <<TestCheck(c)>>
\* CoprBuildJobHelper.report_status_to_all_for_chroot
ChecksAllForChroot(c) == ChecksBuildForChroot(c) \o ChecksTestsForChroot(c)

\* The "Congratulations!" comment of report_successful_build.
CongratsMsg == "Congratulations! One of the builds has completed."

Labels == {"ready", "wip"}

\* job_tests_all: the test jobs of the package configuration.  One job per
\* branch of the condition in handle_testing_farm.
TestJobs ==
    << [skip_build |-> FALSE, manual_trigger |-> FALSE,
        trigger |-> "pull_request", present |-> {}, absent |-> {},
        targets |-> Targets, remap |-> FALSE],
       [skip_build |-> TRUE, manual_trigger |-> FALSE,
        trigger |-> "pull_request", present |-> {}, absent |-> {},
        targets |-> Targets, remap |-> FALSE],
       [skip_build |-> FALSE, manual_trigger |-> TRUE,
        trigger |-> "pull_request", present |-> {}, absent |-> {},
        targets |-> Targets, remap |-> FALSE],
       [skip_build |-> FALSE, manual_trigger |-> FALSE,
        trigger |-> "pull_request", present |-> {"ready"}, absent |-> {"wip"},
        targets |-> {ScanTarget}, remap |-> TRUE],
       [skip_build |-> FALSE, manual_trigger |-> FALSE,
        trigger |-> "commit", present |-> {"ready"}, absent |-> {},
        targets |-> {OtherTarget}, remap |-> FALSE] >>

TestJobConfigs == {<<>>, TestJobs}

AllGates == [job_build_pr : BOOLEAN, pr_id : BOOLEAN, forge : BOOLEAN,
             notify : BOOLEAN]
NoGate == [job_build_pr |-> FALSE, pr_id |-> FALSE, forge |-> FALSE,
           notify |-> FALSE]

\* package_config.get_job_views(): the jobs a package configuration can hold.
NoJob == [type |-> None, trigger |-> None, branch |-> None, project |-> None,
          owner |-> None]
JobViews ==
    { [type |-> "copr_build", trigger |-> "commit", branch |-> "main",
       project |-> "commit-project", owner |-> "user-123"],
      [type |-> "build", trigger |-> "commit", branch |-> None,
       project |-> "default-project", owner |-> "user-123"],
      [type |-> "copr_build", trigger |-> "pull_request", branch |-> "main",
       project |-> "pr-project", owner |-> "user-123"],
      [type |-> "tests", trigger |-> "commit", branch |-> "main",
       project |-> "tests-project", owner |-> "user-123"],
      [type |-> "copr_build", trigger |-> "commit", branch |-> "dev",
       project |-> "dev-project", owner |-> "user-123"] }
\* Package configurations: every list of at most two of these jobs.
PackageConfigs ==
    {<<>>} \cup {<<a>> : a \in JobViews}
           \cup {<<a, b>> : a \in JobViews, b \in JobViews}
Branches == {"main", "dev"}
\* project.default_branch
DefaultBranch == "main"
\* pull_request_object.target_branch_head_commit
TargetBranchHeadCommit == "abcdef"

\* Rows of other builds the storage may hold when the base build is queried.
BaseRows ==
    [commit_sha : {TargetBranchHeadCommit, "012345"},
     project_name : {"commit-project", "default-project", "dev-project"},
     owner : {"user-123", "someone-else"},
     target : Targets, status : {Success, Failure}]

\* Values of the DISABLE_OPENSCANHUB environment variable; Unset is its absence.
Unset == "<unset>"
EnvValues == {Unset, "False", "0", "True", "true", "T", "YES", "y", "1"}

\* Free-text outputs of the scan service, as token sequences: "{" and "}",
\* prose "t", the members "k" ("id": 1), "u1" ("url": "scan-url"),
\* "u2" ("url": "other-url") and "u0" ("url": "").  <<>> is None or "".
ScanOutputs ==
    { <<>>,
      <<"t">>,
      <<"{", "u1", "}">>,
      <<"t", "{", "u1", "}", "t">>,
      <<"{", "k", "}">>,
      <<"{", "u0", "}">>,
      <<"{", "u1", "}", "t", "{", "k", "u2", "}">>,
      <<"{", "u1", "}", "{", "k", "}">>,
      <<"{", "k", "{", "u1", "}", "}">>,
      <<"{", "t", "}">> }

\* The inputs the handlers draw from their surroundings (configuration, build
\* service, forge, storage, scan service).  Wide is every input listed above;
\* Narrow keeps one input per outcome, for the specifications that explore
\* sequences of callbacks.
Wide ==
    [may_fail |-> TRUE,
     gates |-> AllGates,
     built_packages |-> {"[]", "pkgs"},
     job_tests_all |-> TestJobConfigs,
     labels |-> SUBSET Labels,
     env |-> EnvValues,
     package_config |-> PackageConfigs,
     target_branch |-> Branches,
     rows |-> {{}} \cup {{r} : r \in BaseRows},
     output |-> ScanOutputs]

Narrow ==
    [may_fail |-> TRUE,
     gates |-> {g \in AllGates : g.job_build_pr /\ g.pr_id /\ g.forge /\ g.notify},
     built_packages |-> {"pkgs"},
     job_tests_all |-> {TestJobs},
     labels |-> {{"ready"}},
     env |-> EnvValues,
     package_config |->
       {jobs \in PackageConfigs :
          Len(jobs) = 1 /\ jobs[1].project \in {"commit-project", "pr-project"}},
     target_branch |-> {"main"},
     rows |-> {{}} \cup
       {{r} : r \in {x \in BaseRows :
                       /\ x.project_name = "commit-project"
                       /\ x.owner = "user-123" /\ x.target = ScanTarget
                       /\ x.commit_sha = TargetBranchHeadCommit}},
     output |-> {<<>>, <<"t">>, <<"{", "u1", "}">>, <<"{", "t", "}">>}]

\* The inputs of the concurrent runs: one value each, the scan disabled by
\* the environment.
Single ==
    [may_fail |-> FALSE,
     gates |-> Narrow.gates,
     built_packages |-> Narrow.built_packages,
     job_tests_all |-> Narrow.job_tests_all,
     labels |-> Narrow.labels,
     env |-> {"True"},
     package_config |->
       {jobs \in Narrow.package_config : jobs[1].project = "commit-project"},
     target_branch |-> Narrow.target_branch,
     rows |-> Narrow.rows \ {{}},
     output |-> {<<"{", "u1", "}">>}]

NoPre == [env |-> Unset, is_pr |-> FALSE, osh |-> FALSE]

NoLoc ==
    [sync |-> FALSE, fetched |-> None, i |-> 1, gate |-> NoGate,
     gh |-> [collaborator |-> FALSE, submitted |-> 0, outcome |-> None,
             build_id |-> None, watched |-> FALSE, build_state |-> None,
             tf |-> FALSE, chroots |-> <<>>, requests |-> <<>>,
             req |-> [falsy |-> TRUE, status_code |-> 0, json |-> None],
             tf_result |-> None],
     jobs |-> <<>>, labels |-> {},
     pre |-> NoPre, config |-> <<>>, target_branch |-> None, base |-> NoJob,
     base_url |-> None, head_url |-> None, dl |-> <<>>, sub |-> <<>>,
     output |-> <<>>, chain |-> {}, failed |-> {}, private |-> FALSE,
     enabled |-> {}, again |-> FALSE]

\* What a run remembers of the moment it began: the rows, and how much had
\* been reported, posted, counted and enqueued.
NoPreState ==
    [srpm |-> None, target |-> None, reports |-> 0, comments |-> 0,
     counters |-> None, tasks |-> 0, scan |-> None, steve |-> None]

\* ------------------------------------------------------------------- Init
InitRecords ==
    /\ srpm = [status |-> Pending, start |-> None, end |-> None, url |-> None,
               logs |-> None]
    /\ target = [t \in Targets |->
                   [status |-> WaitingForSrpm, start |-> None, end |-> None,
                    logs |-> None, built |-> None]]
    /\ pc = [w \in Workers |-> "idle"]
    /\ ev = [w \in Workers |-> NoEvent]
    /\ loc = [w \in Workers |-> NoLoc]
    /\ result = [w \in Workers |-> None]
    /\ pre = [w \in Workers |-> NoPreState]
    /\ reports = <<>>
    /\ comments = <<>>
    /\ counters = [started |-> 0, finished |-> 0, not_submitted |-> 0,
                   observed |-> 0, notified |-> 0, sentry |-> 0,
                   submitted |-> 0, pushed |-> 0]
    /\ tasks = <<>>
    /\ scan = [tmpdirs |-> {}]
    /\ steve = [triggers |-> 0, sync_release |-> None, sync_target |-> None,
                results |-> <<>>]

Init == InitRecords /\ budget = MaxDeliveries /\ faults = MaxFaults

\* ------------------------------------------------------------ bookkeeping
Goto(w, label) == pc' = [pc EXCEPT ![w] = label]

\* The handler returns TaskResults(success=ok).
Finish(w, ok) ==
    /\ pc' = [pc EXCEPT ![w] = "done"]
    /\ result' = [result EXCEPT ![w] = IF ok THEN "success" ELSE "failure"]

Return(w, ok) == Finish(w, ok) /\ UNCHANGED loc

\* A worker takes a callback off the queue and instantiates its handler.
Deliver(w, e) ==
    /\ pc[w] \in {"idle", "done"}
    /\ budget > 0
    /\ budget' = budget - 1
    /\ ev' = [ev EXCEPT ![w] = e]
    /\ pc' = [pc EXCEPT ![w] = "pre_check"]
    /\ result' = [result EXCEPT ![w] = None]
    /\ loc' = [loc EXCEPT ![w] = NoLoc]
    /\ pre' = [pre EXCEPT ![w] =
                 [srpm |-> srpm, target |-> target, reports |-> Len(reports),
                  comments |-> Len(comments), counters |-> counters,
                  tasks |-> Len(tasks), scan |-> scan, steve |-> steve]]
    /\ UNCHANGED <<srpm, target, reports, comments, counters, tasks, scan, faults>>
    /\ UNCHANGED steve

\* get_checkers() of the three handlers.
Checkers(kind) ==
    CASE kind = "build" ->
           {"IsJobConfigTriggerMatching", "IsGitForgeProjectAndEventOk",
            "CanActorRunTestsJob"}
      [] kind = "start" ->
           {"AreOwnerAndProjectMatchingJob", "IsPackageMatchingJobView",
            "BuildNotAlreadyStarted"}
      [] OTHER ->
           {"AreOwnerAndProjectMatchingJob", "IsPackageMatchingJobView"}

\* BuildNotAlreadyStarted: passes when there is no record, or the record has
\* no start time.
BuildNotAlreadyStarted(e) == ~e.known \/ BuildOf(e).start = None

\* The checkers whose verdict comes from the event and the configuration.
InputCheckers(kind) == Checkers(kind) \ {"BuildNotAlreadyStarted"}

\* The first statement of the handler's run().
RunLabel(kind) ==
    CASE kind = "build" -> "build_run"
      [] kind = "start" -> "start_run"
      [] OTHER -> "end_run"

\* The chain is evaluated whatever a checker says, and run() is called.
PreCheckIgnored(w, I) ==
    /\ pc[w] = "pre_check"
    /\ \E failing \in SUBSET InputCheckers(ev[w].kind) :
         /\ failing = {} \/ I.may_fail
         /\ loc' = [loc EXCEPT ![w].chain = Checkers(ev[w].kind),
                               ![w].failed = failing]
    /\ Goto(w, RunLabel(ev[w].kind))
    /\ UNCHANGED <<pre, srpm, target, ev, result, reports, comments, counters,
                   tasks, scan, budget, faults>>
    /\ UNCHANGED steve

\* The pre-check of a handler: every checker of its chain is evaluated; run()
\* is called when all pass, otherwise the outcome is a success result.
PreCheck(w, I) ==
    /\ pc[w] = "pre_check"
    /\ \E failing \in SUBSET InputCheckers(ev[w].kind) :
         /\ failing = {} \/ I.may_fail
         /\ LET failed ==
                  failing \cup
                    IF ev[w].kind = "start" /\ ~BuildNotAlreadyStarted(ev[w])
                    THEN {"BuildNotAlreadyStarted"} ELSE {}
            IN /\ loc' = [loc EXCEPT ![w].chain = Checkers(ev[w].kind),
                                     ![w].failed = failed]
               /\ IF failed = {}
                  THEN Goto(w, RunLabel(ev[w].kind)) /\ UNCHANGED result
                  ELSE Finish(w, TRUE)
    /\ UNCHANGED <<pre, srpm, target, ev, reports, comments, counters, tasks, scan,
                   budget, faults>>
    /\ UNCHANGED steve

\* At-least-once delivery: the callback whose handler has just run is taken off
\* the queue once more, with the same payload.
Redeliver(w) ==
    /\ pc[w] = "done"
    /\ ev[w].kind \in {"start", "end"}
    /\ loc[w].failed = {}
    /\ budget > 0
    /\ budget' = budget - 1
    /\ pc' = [pc EXCEPT ![w] = "pre_check"]
    /\ result' = [result EXCEPT ![w] = None]
    /\ loc' = [loc EXCEPT ![w] = [NoLoc EXCEPT !.again = TRUE]]
    /\ pre' = [pre EXCEPT ![w] =
                 [srpm |-> srpm, target |-> target, reports |-> Len(reports),
                  comments |-> Len(comments), counters |-> counters,
                  tasks |-> Len(tasks), scan |-> scan, steve |-> steve]]
    /\ UNCHANGED <<srpm, target, ev, reports, comments, counters, tasks, scan,
                   steve, faults>>

\* CoprBuildHandler.run(): the build is submitted.
BuildRun(w) ==
    /\ pc[w] = "build_run"
    /\ counters' = [counters EXCEPT !.submitted = @ + 1]
    /\ Return(w, TRUE)
    /\ UNCHANGED <<pre, srpm, target, ev, reports, comments, tasks, scan, budget,
                   faults>>
    /\ UNCHANGED steve

\* self.build.set_<field>(value): one single-field update of the stored row.
SetBuild(e, field, value) ==
    IF e.chroot = COPR_SRPM_CHROOT
    THEN /\ srpm' = [srpm EXCEPT ![field] = value]
         /\ UNCHANGED target
    ELSE /\ target' = [target EXCEPT ![e.chroot][field] = value]
         /\ UNCHANGED srpm

\* --------------------------------------------------- CoprBuildStartHandler
\* run() without the guard for a callback that has no record.
StartRunAnyRecord(w) ==
    /\ pc[w] = "start_run"
    /\ IF BuildOf(ev[w]).start # None
       THEN Return(w, TRUE)
       ELSE /\ Goto(w, IF IsFinalState(BuildOf(ev[w]).status)
                       THEN "start_final_set_time"
                       ELSE "start_set_logs_url")
            /\ UNCHANGED <<result, loc>>
    /\ UNCHANGED <<pre, srpm, target, ev, reports, comments, counters, tasks, scan,
                   budget, faults>>
    /\ UNCHANGED steve

\* run() without the guard for a record in its final state.
StartRunNoFinalGuard(w) ==
    /\ pc[w] = "start_run"
    /\ IF ~ev[w].known
       THEN Return(w, FALSE)
       ELSE IF BuildOf(ev[w]).start # None
       THEN Return(w, TRUE)
       ELSE /\ Goto(w, "start_set_logs_url")
            /\ UNCHANGED <<result, loc>>
    /\ UNCHANGED <<pre, srpm, target, ev, reports, comments, counters, tasks, scan,
                   budget, faults>>
    /\ UNCHANGED steve

\* run(), the three guards: no record, start already processed, final state.
StartRun(w) ==
    /\ pc[w] = "start_run"
    /\ IF ~ev[w].known
       THEN Return(w, FALSE)
       ELSE IF BuildOf(ev[w]).start # None
       THEN Return(w, TRUE)
       ELSE /\ Goto(w, IF IsFinalState(BuildOf(ev[w]).status)
                       THEN "start_final_set_time"
                       ELSE "start_set_logs_url")
            /\ UNCHANGED <<result, loc>>
    /\ UNCHANGED <<pre, srpm, target, ev, reports, comments, counters, tasks, scan,
                   budget, faults>>
    /\ UNCHANGED steve

\* set_start_time() on a record already in its final state.
StartFinalSetTime(w) ==
    /\ pc[w] = "start_final_set_time"
    /\ SetBuild(ev[w], "start", ToTime(ev[w].timestamp))
    /\ Return(w, TRUE)
    /\ UNCHANGED <<pre, ev, reports, comments, counters, tasks, scan, budget, faults>>
    /\ UNCHANGED steve

\* set_logs_url()
StartSetLogsUrl(w) ==
    /\ pc[w] = "start_set_logs_url"
    /\ SetBuild(ev[w], "logs", "build-logs")
    /\ Goto(w, IF ev[w].chroot = COPR_SRPM_CHROOT
               THEN "start_srpm_report" ELSE "start_inc_started")
    /\ UNCHANGED <<pre, ev, loc, result, reports, comments, counters, tasks, scan,
                   budget, faults>>
    /\ UNCHANGED steve

\* SRPM chroot: report "SRPM build is in progress..."
StartSrpmReport(w) ==
    /\ pc[w] = "start_srpm_report"
    /\ \E sync \in BOOLEAN :
         /\ loc' = [loc EXCEPT ![w].sync = sync]
         /\ reports' = reports \o
              Report(IF sync THEN ChecksAll ELSE ChecksBuild, StRunning,
                     "SRPM build is in progress...", "srpm-info")
    /\ Goto(w, "start_srpm_set_time")
    /\ UNCHANGED <<pre, srpm, target, ev, result, comments, counters, tasks, scan,
                   budget, faults>>
    /\ UNCHANGED steve

\* SRPM chroot: set_start_time() and return
StartSrpmSetTime(w) ==
    /\ pc[w] = "start_srpm_set_time"
    /\ SetBuild(ev[w], "start", ToTime(ev[w].timestamp))
    /\ Return(w, TRUE)
    /\ UNCHANGED <<pre, ev, reports, comments, counters, tasks, scan, budget, faults>>
    /\ UNCHANGED steve

\* pushgateway.copr_builds_started.inc()
StartIncStarted(w) ==
    /\ pc[w] = "start_inc_started"
    /\ counters' = [counters EXCEPT !.started = @ + 1]
    /\ Goto(w, "start_set_pending")
    /\ UNCHANGED <<pre, srpm, target, ev, loc, result, reports, comments, tasks,
                   scan, budget, faults>>
    /\ UNCHANGED steve

\* self.build.set_status(BuildStatus.pending)
StartSetPending(w) ==
    /\ pc[w] = "start_set_pending"
    /\ SetBuild(ev[w], "status", Pending)
    /\ Goto(w, "start_report")
    /\ UNCHANGED <<pre, ev, loc, result, reports, comments, counters, tasks, scan,
                   budget, faults>>
    /\ UNCHANGED steve

\* The report goes to the check runs of every target.
StartReportAllTargets(w) ==
    /\ pc[w] = "start_report"
    /\ \E sync \in BOOLEAN :
         /\ loc' = [loc EXCEPT ![w].sync = sync]
         /\ reports' = reports \o
              Report(IF sync THEN ChecksAll ELSE ChecksBuild,
                     StRunning, "RPM build is in progress...", "build-info")
    /\ Goto(w, "start_set_time")
    /\ UNCHANGED <<pre, srpm, target, ev, result, comments, counters, tasks, scan,
                   budget, faults>>
    /\ UNCHANGED steve

\* binary target: report "RPM build is in progress..." for the chroot
StartReport(w) ==
    /\ pc[w] = "start_report"
    /\ \E sync \in BOOLEAN :
         /\ loc' = [loc EXCEPT ![w].sync = sync]
         /\ reports' = reports \o
              Report(IF sync THEN ChecksAllForChroot(ev[w].chroot)
                             ELSE ChecksBuildForChroot(ev[w].chroot),
                     StRunning, "RPM build is in progress...", "build-info")
    /\ Goto(w, "start_set_time")
    /\ UNCHANGED <<pre, srpm, target, ev, result, comments, counters, tasks, scan,
                   budget, faults>>
    /\ UNCHANGED steve

\* binary target: set_start_time() and return
StartSetTime(w) ==
    /\ pc[w] = "start_set_time"
    /\ SetBuild(ev[w], "start", ToTime(ev[w].timestamp))
    /\ Return(w, TRUE)
    /\ UNCHANGED <<pre, ev, reports, comments, counters, tasks, scan, budget, faults>>
    /\ UNCHANGED steve

StartHandler(w) ==
    \/ StartRun(w)
    \/ StartFinalSetTime(w)
    \/ StartSetLogsUrl(w)
    \/ StartSrpmReport(w)
    \/ StartSrpmSetTime(w)
    \/ StartIncStarted(w)
    \/ StartSetPending(w)
    \/ StartReport(w)
    \/ StartSetTime(w)

\* ----------------------------------------------------- CoprBuildEndHandler
\* Where run() continues after set_srpm_url().
AfterSrpmUrl(e) ==
    IF e.chroot = COPR_SRPM_CHROOT
    THEN IF e.status # COPR_API_SUCC_STATE
         THEN "srpm_fail_report" ELSE "srpm_succ_loop"
    ELSE "end_inc_finished"

\* run() without the check of the record's status.
EndRunNoGuard(w) ==
    /\ pc[w] = "end_run"
    /\ IF ~ev[w].known
       THEN Return(w, FALSE)
       ELSE /\ Goto(w, "end_set_end_time")
            /\ UNCHANGED <<result, loc>>
    /\ UNCHANGED <<pre, srpm, target, ev, reports, comments, counters, tasks, scan,
                   budget, faults>>
    /\ UNCHANGED steve

\* run() with a check that lets a failed record through.
EndRunOnlySuccess(w) ==
    /\ pc[w] = "end_run"
    /\ IF ~ev[w].known
       THEN Return(w, FALSE)
       ELSE IF BuildOf(ev[w]).status = Success
       THEN Return(w, TRUE)
       ELSE /\ Goto(w, "end_set_end_time")
            /\ UNCHANGED <<result, loc>>
    /\ UNCHANGED <<pre, srpm, target, ev, reports, comments, counters, tasks, scan,
                   budget, faults>>
    /\ UNCHANGED steve

\* run(), the two guards: no record, status already success or failure.
EndRun(w) ==
    /\ pc[w] = "end_run"
    /\ IF ~ev[w].known
       THEN Return(w, FALSE)
       ELSE IF BuildOf(ev[w]).status \in {Success, Failure}
       THEN Return(w, TRUE)
       ELSE /\ Goto(w, "end_set_end_time")
            /\ UNCHANGED <<result, loc>>
    /\ UNCHANGED <<pre, srpm, target, ev, reports, comments, counters, tasks, scan,
                   budget, faults>>
    /\ UNCHANGED steve

\* set_end_time()
EndSetEndTime(w) ==
    /\ pc[w] = "end_set_end_time"
    /\ SetBuild(ev[w], "end", ToTime(ev[w].timestamp))
    /\ Goto(w, "end_get_srpm_url")
    /\ UNCHANGED <<pre, ev, loc, result, reports, comments, counters, tasks, scan,
                   budget, faults>>
    /\ UNCHANGED steve

\* set_srpm_url() asks the build service whether or not the url is set.
EndGetSrpmUrlAlways(w) ==
    /\ pc[w] = "end_get_srpm_url"
    /\ \E srpm_url \in {None, "head-srpm-url"} :
         /\ loc' = [loc EXCEPT ![w].fetched = srpm_url]
         /\ Goto(w, IF srpm_url # None THEN "end_set_srpm_url"
                    ELSE AfterSrpmUrl(ev[w]))
    /\ UNCHANGED <<pre, srpm, target, ev, result, reports, comments, counters,
                   tasks, scan, budget, faults>>
    /\ UNCHANGED steve

\* set_srpm_url(): return if the url is set, else ask the build service.
EndGetSrpmUrl(w) ==
    /\ pc[w] = "end_get_srpm_url"
    /\ IF srpm.url # None
       THEN /\ Goto(w, AfterSrpmUrl(ev[w]))
            /\ UNCHANGED loc
       ELSE \E srpm_url \in {None, "head-srpm-url"} :
              /\ loc' = [loc EXCEPT ![w].fetched = srpm_url]
              /\ Goto(w, IF srpm_url # None THEN "end_set_srpm_url"
                         ELSE AfterSrpmUrl(ev[w]))
    /\ UNCHANGED <<pre, srpm, target, ev, result, reports, comments, counters,
                   tasks, scan, budget, faults>>
    /\ UNCHANGED steve

\* set_srpm_url(): srpm_build.set_url(srpm_url)
EndSetSrpmUrl(w) ==
    /\ pc[w] = "end_set_srpm_url"
    /\ srpm' = [srpm EXCEPT !.url = loc[w].fetched]
    /\ loc' = [loc EXCEPT ![w].fetched = None]
    /\ Goto(w, AfterSrpmUrl(ev[w]))
    /\ UNCHANGED <<pre, target, ev, result, reports, comments, counters, tasks,
                   scan, budget, faults>>
    /\ UNCHANGED steve

\* ------------------------------------------------------- handle_srpm_end
\* SRPM failed: report_status_to_all(failure)
SrpmFailReport(w) ==
    /\ pc[w] = "srpm_fail_report"
    /\ reports' = reports \o
         Report(ChecksAll, StFailure,
                "SRPM build failed, check the logs for details.", "srpm-info")
    /\ Goto(w, "srpm_fail_notify")
    /\ UNCHANGED <<pre, srpm, target, ev, loc, result, comments, counters, tasks,
                   scan, budget, faults>>
    /\ UNCHANGED steve

\* SRPM failed: notify_about_failure_if_configured()
SrpmFailNotify(w) ==
    /\ pc[w] = "srpm_fail_notify"
    /\ counters' = [counters EXCEPT !.notified = @ + 1]
    /\ Goto(w, "srpm_fail_set_status")
    /\ UNCHANGED <<pre, srpm, target, ev, loc, result, reports, comments, tasks,
                   scan, budget, faults>>
    /\ UNCHANGED steve

\* The failure of the SRPM is written to every target as well.
SrpmFailSetStatusAll(w) ==
    /\ pc[w] = "srpm_fail_set_status"
    /\ srpm' = [srpm EXCEPT !.status = Failure]
    /\ target' = [t \in Targets |-> [target[t] EXCEPT !.status = Failure]]
    /\ Goto(w, "srpm_fail_monitor")
    /\ UNCHANGED <<pre, ev, loc, result, reports, comments, counters,
                   tasks, scan, budget, faults>>
    /\ UNCHANGED steve

\* SRPM failed: self.build.set_status(BuildStatus.failure)
SrpmFailSetStatus(w) ==
    /\ pc[w] = "srpm_fail_set_status"
    /\ srpm' = [srpm EXCEPT !.status = Failure]
    /\ Goto(w, "srpm_fail_monitor")
    /\ UNCHANGED <<pre, target, ev, loc, result, reports, comments, counters,
                   tasks, scan, budget, faults>>
    /\ UNCHANGED steve

\* The counter of builds not submitted goes up by one, whatever the number
\* of targets.
SrpmFailMonitorByOne(w) ==
    /\ pc[w] = "srpm_fail_monitor"
    /\ counters' = [counters EXCEPT !.not_submitted = @ + 1]
    /\ Return(w, FALSE)
    /\ UNCHANGED <<pre, srpm, target, ev, reports, comments, tasks, scan, budget,
                   faults>>
    /\ UNCHANGED steve

\* SRPM failed: monitor_not_submitted_copr_builds(len(build_targets)), return
SrpmFailMonitor(w) ==
    /\ pc[w] = "srpm_fail_monitor"
    /\ counters' = [counters EXCEPT !.not_submitted = @ + Len(TargetSeq)]
    /\ Return(w, FALSE)
    /\ UNCHANGED <<pre, srpm, target, ev, reports, comments, tasks, scan, budget,
                   faults>>
    /\ UNCHANGED steve

\* The loop stops one target short.
SrpmSuccLoopShort(w) ==
    /\ pc[w] = "srpm_succ_loop"
    /\ IF loc[w].i < Len(TargetSeq)
       THEN /\ target' = [target EXCEPT ![TargetSeq[loc[w].i]].status = Pending]
            /\ loc' = [loc EXCEPT ![w].i = @ + 1]
            /\ UNCHANGED pc
       ELSE /\ Goto(w, "srpm_succ_set_status")
            /\ loc' = [loc EXCEPT ![w].i = 1]
            /\ UNCHANGED target
    /\ UNCHANGED <<pre, srpm, ev, result, reports, comments, counters, tasks, scan,
                   budget, faults>>
    /\ UNCHANGED steve

\* SRPM succeeded: the loop over get_all_by_build_id, one set_status a step
SrpmSuccLoop(w) ==
    /\ pc[w] = "srpm_succ_loop"
    /\ IF loc[w].i <= Len(TargetSeq)
       THEN /\ target' = [target EXCEPT ![TargetSeq[loc[w].i]].status = Pending]
            /\ loc' = [loc EXCEPT ![w].i = @ + 1]
            /\ UNCHANGED pc
       ELSE /\ Goto(w, "srpm_succ_set_status")
            /\ loc' = [loc EXCEPT ![w].i = 1]
            /\ UNCHANGED target
    /\ UNCHANGED <<pre, srpm, ev, result, reports, comments, counters, tasks, scan,
                   budget, faults>>
    /\ UNCHANGED steve

\* SRPM succeeded: self.build.set_status(BuildStatus.success)
SrpmSuccSetStatus(w) ==
    /\ pc[w] = "srpm_succ_set_status"
    /\ srpm' = [srpm EXCEPT !.status = Success]
    /\ Goto(w, "srpm_succ_report")
    /\ UNCHANGED <<pre, target, ev, loc, result, reports, comments, counters,
                   tasks, scan, budget, faults>>
    /\ UNCHANGED steve

\* SRPM succeeded: report "SRPM build succeeded. Waiting for RPM build..."
SrpmSuccReport(w) ==
    /\ pc[w] = "srpm_succ_report"
    /\ \E sync \in BOOLEAN :
         reports' = reports \o
           Report(IF sync THEN ChecksAll ELSE ChecksBuild, StRunning,
                  "SRPM build succeeded. Waiting for RPM build to start...",
                  "srpm-info")
    /\ Return(w, TRUE)
    /\ UNCHANGED <<pre, srpm, target, ev, comments, counters, tasks, scan, budget,
                   faults>>
    /\ UNCHANGED steve

\* ------------------------------------------------- binary target, failure
\* pushgateway.copr_builds_finished.inc()
EndIncFinished(w) ==
    /\ pc[w] = "end_inc_finished"
    /\ counters' = [counters EXCEPT !.finished = @ + 1]
    /\ Goto(w, IF ev[w].status # COPR_API_SUCC_STATE
               THEN "end_fail_check" ELSE "end_succ_comment")
    /\ UNCHANGED <<pre, srpm, target, ev, loc, result, reports, comments, tasks,
                   scan, budget, faults>>
    /\ UNCHANGED steve

\* The failure is reported whatever the SRPM record says.
EndFailCheckAlways(w) ==
    /\ pc[w] = "end_fail_check"
    /\ Goto(w, "end_fail_report")
    /\ UNCHANGED <<pre, srpm, target, ev, loc, result, reports, comments, counters,
                   tasks, scan, budget, faults>>
    /\ UNCHANGED steve

\* if self.build.get_srpm_build().status != BuildStatus.failure
EndFailCheck(w) ==
    /\ pc[w] = "end_fail_check"
    /\ Goto(w, IF srpm.status # Failure
               THEN "end_fail_report" ELSE "end_fail_set_status")
    /\ UNCHANGED <<pre, srpm, target, ev, loc, result, reports, comments, counters,
                   tasks, scan, budget, faults>>
    /\ UNCHANGED steve

\* report_status_to_all_for_chroot(failure)
EndFailReport(w) ==
    /\ pc[w] = "end_fail_report"
    /\ reports' = reports \o
         Report(ChecksAllForChroot(ev[w].chroot), StFailure,
                "RPMs failed to be built.", "build-info")
    /\ Goto(w, "end_fail_measure")
    /\ UNCHANGED <<pre, srpm, target, ev, loc, result, comments, counters, tasks,
                   scan, budget, faults>>
    /\ UNCHANGED steve

\* measure_time_after_reporting()
EndFailMeasure(w) ==
    /\ pc[w] = "end_fail_measure"
    /\ counters' = [counters EXCEPT !.observed = @ + 1]
    /\ Goto(w, "end_fail_notify")
    /\ UNCHANGED <<pre, srpm, target, ev, loc, result, reports, comments, tasks,
                   scan, budget, faults>>
    /\ UNCHANGED steve

\* notify_about_failure_if_configured()
EndFailNotify(w) ==
    /\ pc[w] = "end_fail_notify"
    /\ counters' = [counters EXCEPT !.notified = @ + 1]
    /\ Goto(w, "end_fail_set_status")
    /\ UNCHANGED <<pre, srpm, target, ev, loc, result, reports, comments, tasks,
                   scan, budget, faults>>
    /\ UNCHANGED steve

\* self.build.set_status(BuildStatus.failure), return
EndFailSetStatus(w) ==
    /\ pc[w] = "end_fail_set_status"
    /\ SetBuild(ev[w], "status", Failure)
    /\ Return(w, FALSE)
    /\ UNCHANGED <<pre, ev, reports, comments, counters, tasks, scan, budget, faults>>
    /\ UNCHANGED steve

\* ------------------------------------------------- binary target, success
\* The comment is posted whatever the last comment is.
PostCommentAlways(posted, msg) == Append(posted, msg)

\* status_reporter.comment(msg, duplicate_check=check_last_comment): posts
\* unless the last comment of the pull request is the same text.
PostComment(posted, msg) ==
    IF posted # <<>> /\ posted[Len(posted)] = msg THEN posted
    ELSE Append(posted, msg)

\* The comment is posted whatever the notification preference.
EndSuccCommentAnyPreference(w, I) ==
    /\ pc[w] = "end_succ_comment"
    /\ \E gate \in I.gates :
         /\ loc' = [loc EXCEPT ![w].gate = gate]
         /\ IF gate.job_build_pr /\ gate.pr_id /\ gate.forge
            THEN comments' = PostComment(comments, CongratsMsg)
            ELSE UNCHANGED comments
    /\ Goto(w, "end_succ_report")
    /\ UNCHANGED <<pre, srpm, target, ev, result, reports, counters, tasks, scan,
                   budget, faults>>
    /\ UNCHANGED steve

\* report_successful_build(): the congratulatory comment and its gate.
EndSuccComment(w, I) ==
    /\ pc[w] = "end_succ_comment"
    /\ \E gate \in I.gates :
         /\ loc' = [loc EXCEPT ![w].gate = gate]
         /\ IF gate.job_build_pr /\ gate.pr_id /\ gate.forge /\ gate.notify
            THEN comments' = PostComment(comments, CongratsMsg)
            ELSE UNCHANGED comments
    /\ Goto(w, "end_succ_report")
    /\ UNCHANGED <<pre, srpm, target, ev, result, reports, counters, tasks, scan,
                   budget, faults>>
    /\ UNCHANGED steve

\* The success goes to the test check runs of the chroot as well.
EndSuccReportAllForChroot(w) ==
    /\ pc[w] = "end_succ_report"
    /\ reports' = reports \o
         Report(ChecksAllForChroot(ev[w].chroot), StSuccess,
                "RPMs were built successfully.", "build-info")
    /\ loc' = [loc EXCEPT ![w].gate = NoGate]
    /\ Goto(w, "end_succ_sync")
    /\ UNCHANGED <<pre, srpm, target, ev, result, comments, counters, tasks, scan,
                   budget, faults>>
    /\ UNCHANGED steve

\* report_successful_build(): report_status_to_build_for_chroot(success)
EndSuccReport(w) ==
    /\ pc[w] = "end_succ_report"
    /\ reports' = reports \o
         Report(ChecksBuildForChroot(ev[w].chroot), StSuccess,
                "RPMs were built successfully.", "build-info")
    /\ loc' = [loc EXCEPT ![w].gate = NoGate]
    /\ Goto(w, "end_succ_sync")
    /\ UNCHANGED <<pre, srpm, target, ev, result, comments, counters, tasks, scan,
                   budget, faults>>
    /\ UNCHANGED steve

\* report_successful_build(): with status-sync, test jobs are set pending
EndSuccSync(w) ==
    /\ pc[w] = "end_succ_sync"
    /\ \E sync \in BOOLEAN :
         /\ loc' = [loc EXCEPT ![w].sync = sync]
         /\ reports' =
              IF sync
              THEN reports \o
                     Report(ChecksTestsForChroot(ev[w].chroot), StPending,
                            "RPMs were built successfully.", "build-info")
              ELSE reports
    /\ Goto(w, "end_succ_measure")
    /\ UNCHANGED <<pre, srpm, target, ev, result, comments, counters, tasks, scan,
                   budget, faults>>
    /\ UNCHANGED steve

\* measure_time_after_reporting()
EndSuccMeasure(w) ==
    /\ pc[w] = "end_succ_measure"
    /\ counters' = [counters EXCEPT !.observed = @ + 1]
    /\ Goto(w, "end_get_built_packages")
    /\ UNCHANGED <<pre, srpm, target, ev, loc, result, reports, comments, tasks,
                   scan, budget, faults>>
    /\ UNCHANGED steve

\* set_built_packages(): return if already set, else ask the build service
EndGetBuiltPackages(w, I) ==
    /\ pc[w] = "end_get_built_packages"
    /\ IF target[ev[w].chroot].built = "pkgs"
       THEN /\ Goto(w, "end_set_success")
            /\ UNCHANGED loc
       ELSE \E built_packages \in I.built_packages :
              /\ loc' = [loc EXCEPT ![w].fetched = built_packages]
              /\ Goto(w, "end_set_built_packages")
    /\ UNCHANGED <<pre, srpm, target, ev, result, reports, comments, counters,
                   tasks, scan, budget, faults>>
    /\ UNCHANGED steve

\* set_built_packages(): self.build.set_built_packages(built_packages)
EndSetBuiltPackages(w) ==
    /\ pc[w] = "end_set_built_packages"
    /\ SetBuild(ev[w], "built", loc[w].fetched)
    /\ loc' = [loc EXCEPT ![w].fetched = None]
    /\ Goto(w, "end_set_success")
    /\ UNCHANGED <<pre, ev, result, reports, comments, counters, tasks, scan,
                   budget, faults>>
    /\ UNCHANGED steve

\* run() goes on to the test jobs without setting the status.
EndSetSuccessSkipped(w) ==
    /\ pc[w] = "end_set_success"
    /\ Goto(w, "tf_begin")
    /\ UNCHANGED <<pre, srpm, target, ev, loc, result, reports, comments, counters,
                   tasks, scan, budget, faults>>
    /\ UNCHANGED steve

\* self.build.set_status(BuildStatus.success)
EndSetSuccess(w) ==
    /\ pc[w] = "end_set_success"
    /\ SetBuild(ev[w], "status", Success)
    /\ Goto(w, "tf_begin")
    /\ UNCHANGED <<pre, ev, loc, result, reports, comments, counters, tasks, scan,
                   budget, faults>>
    /\ UNCHANGED steve

\* ---------------------------------------------------- handle_testing_farm
\* pr_labels_match_configuration
PrLabelsMatch(labels, present, absent) ==
    /\ present = {} \/ present \cap labels # {}
    /\ absent \cap labels = {}

\* Whether the job's condition reads the labels of the pull request.
NeedsLabels(job) ==
    /\ ~job.skip_build
    /\ ~job.manual_trigger
    /\ job.trigger = "pull_request"
    /\ job.present # {} \/ job.absent # {}

\* The loop enqueues a task for a job whatever the targets of the job.
TestJobQualifiesAnyTarget(job, labels, chroot) ==
    /\ ~job.skip_build
    /\ ~job.manual_trigger
    /\ \/ job.trigger # "pull_request"
       \/ ~(job.present # {} \/ job.absent # {})
       \/ PrLabelsMatch(labels, job.present, job.absent)

\* The condition of the loop body of handle_testing_farm.
TestJobQualifies(job, labels, chroot) ==
    /\ ~job.skip_build
    /\ ~job.manual_trigger
    /\ \/ job.trigger # "pull_request"
       \/ ~(job.present # {} \/ job.absent # {})
       \/ PrLabelsMatch(labels, job.present, job.absent)
    /\ chroot \in job.targets

\* build_target2test_targets_for_test_job
TestTargets(job, chroot) ==
    IF job.remap THEN {"centos-stream-x86_64"} ELSE {chroot}

\* if not job_tests_all: return
TfBegin(w, I) ==
    /\ pc[w] = "tf_begin"
    /\ \E jobs \in I.job_tests_all :
         /\ loc' = [loc EXCEPT ![w].jobs = jobs, ![w].i = 1]
         /\ Goto(w, IF jobs = <<>> THEN "scan_gate" ELSE "tf_loop")
    /\ UNCHANGED <<pre, srpm, target, ev, result, reports, comments, counters,
                   tasks, scan, budget, faults>>
    /\ UNCHANGED steve

\* One iteration of the loop over job_tests_all.
TfLoop(w, I) ==
    /\ pc[w] = "tf_loop"
    /\ IF loc[w].i <= Len(loc[w].jobs)
       THEN LET job == loc[w].jobs[loc[w].i] IN
            \E labels \in IF NeedsLabels(job) THEN I.labels ELSE {loc[w].labels} :
              /\ loc' = [loc EXCEPT ![w].i = @ + 1, ![w].labels = labels]
              /\ tasks' =
                   IF TestJobQualifies(job, labels, ev[w].chroot)
                   THEN Append(tasks,
                               [job |-> loc[w].i, build_id |-> ev[w].chroot,
                                tests_targets_override |->
                                  TestTargets(job, ev[w].chroot)])
                   ELSE tasks
              /\ UNCHANGED pc
       ELSE /\ Goto(w, "scan_gate")
            /\ loc' = [loc EXCEPT ![w].i = 1]
            /\ UNCHANGED tasks
    /\ UNCHANGED <<pre, srpm, target, ev, result, reports, comments, counters,
                   scan, budget, faults>>
    /\ UNCHANGED steve

\* ------------------------------------------------------------- ScanHelper
\* str.lower() on the values of the environment variable
Lower(v) ==
    CASE v = "True" -> "true"
      [] v = "False" -> "false"
      [] v = "T" -> "t"
      [] v = "YES" -> "yes"
      [] OTHER -> v

\* ScanHelper.osh_disabled
osh_disabled(env) ==
    Lower(IF env = Unset THEN "False" ELSE env) \in {"true", "t", "yes", "y", "1"}

\* The condition without the comparison of the target.
ScanWantedAnyTarget(cond, build_target) ==
    /\ ~osh_disabled(cond.env)
    /\ cond.is_pr
    /\ cond.osh

\* The condition guarding the call of handle_scan in run().
ScanWanted(cond, build_target) ==
    /\ ~osh_disabled(cond.env)
    /\ cond.is_pr
    /\ build_target = "fedora-rawhide-x86_64"
    /\ cond.osh

\* The condition without the comparison of the branches.
IsBaseBuildJobAnyBranch(job, target_branch) ==
    /\ job.type \in {"copr_build", "build"}
    /\ job.trigger = "commit"

\* The condition of the loop body of find_base_build_job.
IsBaseBuildJob(job, target_branch) ==
    /\ job.type \in {"copr_build", "build"}
    /\ job.trigger = "commit"
    /\ \/ job.branch # None /\ job.branch = target_branch
       \/ job.branch = None /\ DefaultBranch = target_branch

RECURSIVE FindFrom(_, _, _)
\* The loop of find_base_build_job from job i on: break at the first match.
FindFrom(jobs, i, target_branch) ==
    IF i > Len(jobs) THEN NoJob
    ELSE IF IsBaseBuildJob(jobs[i], target_branch) THEN jobs[i]
    ELSE FindFrom(jobs, i + 1, target_branch)

\* ScanHelper.find_base_build_job
find_base_build_job(jobs, target_branch) == FindFrom(jobs, 1, target_branch)

\* The query of get_base_srpm_model: CoprBuildTargetModel.get_all_by(...)
BaseRowMatches(row, base_build_job) ==
    /\ row.commit_sha = TargetBranchHeadCommit
    /\ row.project_name = base_build_job.project
    /\ row.owner = base_build_job.owner
    /\ row.target = "fedora-rawhide-x86_64"
    /\ row.status = Success

RECURSIVE FirstOpen(_, _)
\* Index of the first "{" at or after pos, 0 if none.
FirstOpen(out, pos) ==
    IF pos > Len(out) THEN 0
    ELSE IF out[pos] = "{" THEN pos ELSE FirstOpen(out, pos + 1)

RECURSIVE FirstClose(_, _)
\* Index of the first "}" at or after pos, 0 if none.
FirstClose(out, pos) ==
    IF pos > Len(out) THEN 0
    ELSE IF out[pos] = "}" THEN pos ELSE FirstClose(out, pos + 1)

RECURSIVE FindAll(_, _)
\* re.findall(r"\{.*?\}", output, re.DOTALL) from pos on: non-overlapping
\* matches, each from a "{" to the first "}" after it.
FindAll(out, pos) ==
    LET open == FirstOpen(out, pos)
        close == IF open = 0 THEN 0 ELSE FirstClose(out, open + 1)
    IN IF open = 0 \/ close = 0 THEN <<>>
       ELSE <<SubSeq(out, open, close)>> \o FindAll(out, close + 1)

Members == {"k", "u0", "u1", "u2"}
UrlValue(tok) ==
    CASE tok = "u1" -> "scan-url"
      [] tok = "u2" -> "other-url"
      [] OTHER -> ""

RECURSIVE LastUrl(_, _)
\* The value of the last "url" member among the first n tokens, None if none.
LastUrl(body, n) ==
    IF n = 0 THEN None
    ELSE IF body[n] \in {"u0", "u1", "u2"} THEN UrlValue(body[n])
    ELSE LastUrl(body, n - 1)

\* json.loads of one match: raises unless the text between the braces is a
\* list of members.
JsonLoads(str) ==
    LET body == SubSeq(str, 2, Len(str) - 1)
    IN IF \A k \in 1..Len(body) : body[k] \in Members
       THEN [raised |-> FALSE, url |-> LastUrl(body, Len(body))]
       ELSE [raised |-> TRUE, url |-> None]

\* ScanHelper.parse_dict_from_output
parse_dict_from_output(output) ==
    LET matches == FindAll(output, 1)
    IN IF matches = <<>> THEN [raised |-> FALSE, url |-> None]
       ELSE JsonLoads(matches[Len(matches)])

ScanPcs ==
    {"scan_find_base", "scan_get_base_srpm", "scan_mkdtemp",
     "scan_download_base", "scan_download_head", "scan_submit", "scan_parse",
     "scan_report"}

\* handle_scan returns (the temporary directory is removed on the way out),
\* and run() returns TaskResults(success=True).
ScanReturn(w) ==
    /\ scan' = [scan EXCEPT !.tmpdirs = @ \ {w}]
    /\ Return(w, TRUE)
    /\ UNCHANGED steve

\* The exception is caught and the directory stays behind.
ScanCaughtLeaves(w) ==
    /\ counters' = [counters EXCEPT !.sentry = @ + 1]
    /\ Return(w, TRUE)
    /\ UNCHANGED scan
    /\ UNCHANGED steve

\* An exception inside handle_scan: the directory is removed while it
\* unwinds, run() catches it, sends it to sentry and returns success.
ScanCaught(w) ==
    /\ counters' = [counters EXCEPT !.sentry = @ + 1]
    /\ ScanReturn(w)
    /\ UNCHANGED steve

\* run(): the condition guarding the scan
ScanGate(w, I) ==
    /\ pc[w] = "scan_gate"
    /\ \E env \in I.env, is_pr \in BOOLEAN, osh \in BOOLEAN :
         LET cond == [env |-> env, is_pr |-> is_pr, osh |-> osh] IN
         IF ScanWanted(cond, ev[w].chroot)
         THEN /\ Goto(w, "scan_find_base")
              /\ loc' = [loc EXCEPT ![w].pre = cond]
              /\ UNCHANGED result
         ELSE Return(w, TRUE)
    /\ UNCHANGED <<pre, srpm, target, ev, reports, comments, counters, tasks, scan,
                   budget, faults>>
    /\ UNCHANGED steve

\* handle_scan(): find_base_build_job()
ScanFindBase(w, I) ==
    /\ pc[w] = "scan_find_base"
    /\ \E jobs \in I.package_config, target_branch \in I.target_branch :
         LET base_build_job == find_base_build_job(jobs, target_branch) IN
         /\ loc' = [loc EXCEPT ![w].pre = NoPre, ![w].config = jobs,
                               ![w].target_branch = target_branch,
                               ![w].base = base_build_job]
         /\ IF base_build_job = NoJob
            THEN Finish(w, TRUE)
            ELSE Goto(w, "scan_get_base_srpm") /\ UNCHANGED result
    /\ UNCHANGED scan
    /\ UNCHANGED <<pre, srpm, target, ev, reports, comments, counters, tasks,
                   budget, faults>>
    /\ UNCHANGED steve

\* handle_scan(): get_base_srpm_model()
ScanGetBaseSrpm(w, I) ==
    /\ pc[w] = "scan_get_base_srpm"
    /\ \E rows \in I.rows :
         IF \E r \in rows : BaseRowMatches(r, loc[w].base)
         THEN /\ Goto(w, "scan_mkdtemp")
              /\ loc' = [loc EXCEPT ![w].config = <<>>,
                                    ![w].target_branch = None,
                                    ![w].base_url = "base-srpm-url"]
              /\ UNCHANGED result
         ELSE Return(w, TRUE)
    /\ UNCHANGED <<pre, srpm, target, ev, reports, comments, counters, tasks, scan,
                   budget, faults>>
    /\ UNCHANGED steve

\* handle_scan(): srpm_model = self.build.get_srpm_build(), and the
\* temporary directory is created
ScanMkdtemp(w) ==
    /\ pc[w] = "scan_mkdtemp"
    /\ loc' = [loc EXCEPT ![w].head_url = srpm.url]
    /\ scan' = [scan EXCEPT !.tmpdirs = @ \cup {w}]
    /\ Goto(w, "scan_download_base")
    /\ UNCHANGED <<pre, srpm, target, ev, result, reports, comments, counters,
                   tasks, budget, faults>>
    /\ UNCHANGED steve

\* The head SRPM is downloaded even when the base download failed.
ScanDownloadBaseContinue(w) ==
    /\ pc[w] = "scan_download_base"
    /\ \E ok \in BOOLEAN :
         loc' = [loc EXCEPT ![w].dl =
                   Append(@, [url |-> loc[w].base_url, ok |-> ok])]
    /\ Goto(w, "scan_download_head")
    /\ UNCHANGED <<pre, srpm, target, ev, result, reports, comments, counters,
                   tasks, scan, budget, faults>>
    /\ UNCHANGED steve

\* download_srpms(): download_srpm(base_srpm_model)
ScanDownloadBase(w) ==
    /\ pc[w] = "scan_download_base"
    /\ \E ok \in BOOLEAN :
         /\ scan' = [scan EXCEPT !.tmpdirs = IF ok THEN @ ELSE @ \ {w}]
         /\ loc' = [loc EXCEPT ![w].dl =
                      Append(@, [url |-> loc[w].base_url, ok |-> ok])]
         /\ IF ok
            THEN Goto(w, "scan_download_head") /\ UNCHANGED result
            ELSE Finish(w, TRUE)
    /\ UNCHANGED <<pre, srpm, target, ev, reports, comments, counters, tasks,
                   budget, faults>>
    /\ UNCHANGED steve

\* download_srpms(): download_srpm(srpm_model); basename(None) raises
ScanDownloadHead(w) ==
    /\ pc[w] = "scan_download_head"
    /\ IF loc[w].head_url = None
       THEN ScanCaught(w)
       ELSE /\ UNCHANGED counters
            /\ \E ok \in BOOLEAN :
                 /\ scan' = [scan EXCEPT !.tmpdirs = IF ok THEN @ ELSE @ \ {w}]
                 /\ loc' = [loc EXCEPT ![w].dl =
                              Append(@, [url |-> loc[w].head_url, ok |-> ok])]
                 /\ IF ok
                    THEN Goto(w, "scan_submit") /\ UNCHANGED result
                    ELSE Finish(w, TRUE)
    /\ UNCHANGED <<pre, srpm, target, ev, reports, comments, tasks, budget, faults>>
    /\ UNCHANGED steve

\* handle_scan(): api.run_osh_build(srpm_path=paths[1], base_srpm=paths[0])
ScanSubmit(w, I) ==
    /\ pc[w] = "scan_submit"
    /\ \E output \in I.output :
         /\ scan' = [scan EXCEPT !.tmpdirs = IF output # <<>> THEN @ ELSE @ \ {w}]
         /\ loc' = [loc EXCEPT ![w].output = output,
                      ![w].sub = Append(@, [srpm_path |-> loc[w].dl[2].url,
                                            base_srpm |-> loc[w].dl[1].url])]
         /\ IF output # <<>>
            THEN Goto(w, "scan_parse") /\ UNCHANGED result
            ELSE Finish(w, TRUE)
    /\ UNCHANGED <<pre, srpm, target, ev, reports, comments, counters, tasks,
                   budget, faults>>
    /\ UNCHANGED steve

\* handle_scan(): parse_dict_from_output(output) and response_dict.get("url")
ScanParse(w) ==
    /\ pc[w] = "scan_parse"
    /\ LET response_dict == parse_dict_from_output(loc[w].output) IN
       IF response_dict.raised
       THEN ScanCaught(w)
       ELSE /\ UNCHANGED counters
            /\ IF response_dict.url \in {None, ""}
               THEN ScanReturn(w)
               ELSE /\ Goto(w, "scan_report")
                    /\ UNCHANGED <<loc, result, scan>>
    /\ UNCHANGED <<pre, srpm, target, ev, reports, comments, tasks, budget, faults>>
    /\ UNCHANGED steve

\* The report goes to the check run of the build instead.
ScanReportBuildCheck(w) ==
    /\ pc[w] = "scan_report"
    /\ reports' = reports \o
         Report(ChecksBuildForChroot(ev[w].chroot), StSuccess,
                "Scan in OpenScanHub submitted successfully. Check the URL for more details.",
                parse_dict_from_output(loc[w].output).url)
    /\ ScanReturn(w)
    /\ UNCHANGED <<pre, srpm, target, ev, comments, counters, tasks, budget, faults>>
    /\ UNCHANGED steve

\* handle_scan(): copr_build_helper._report(success, url, check_names)
ScanReport(w) ==
    /\ pc[w] = "scan_report"
    /\ reports' = reports \o
         Report(<<ScanCheck>>, StSuccess,
                "Scan in OpenScanHub submitted successfully. Check the URL for more details.",
                parse_dict_from_output(loc[w].output).url)
    /\ ScanReturn(w)
    /\ UNCHANGED <<pre, srpm, target, ev, comments, counters, tasks, budget, faults>>
    /\ UNCHANGED steve

\* ----------------------------------------------------- external failures
\* The statements that call out of the process: the build service, the
\* forge, the task queue, and everything inside handle_scan.
RaisePcs ==
    {"start_srpm_report", "start_report", "end_get_srpm_url",
     "srpm_fail_report", "srpm_fail_notify", "srpm_succ_report",
     "end_fail_report", "end_fail_measure", "end_fail_notify",
     "end_succ_comment", "end_succ_report", "end_succ_sync",
     "end_succ_measure", "end_get_built_packages", "tf_loop"} \cup ScanPcs

\* The exception leaves the handler wherever it is raised.
RaisePropagates(w) ==
    /\ pc[w] \in RaisePcs
    /\ faults > 0
    /\ faults' = faults - 1
    /\ pc' = [pc EXCEPT ![w] = "done"]
    /\ result' = [result EXCEPT ![w] = "raised"]
    /\ UNCHANGED <<loc, counters, scan>>
    /\ UNCHANGED <<pre, srpm, target, ev, reports, comments, tasks, budget>>
    /\ UNCHANGED steve

\* The external call of the current statement raises.  Inside handle_scan
\* the exception is caught by run(); anywhere else it leaves the handler.
Raise(w) ==
    /\ pc[w] \in RaisePcs
    /\ faults > 0
    /\ faults' = faults - 1
    /\ IF pc[w] \in ScanPcs
       THEN ScanCaught(w)
       ELSE /\ pc' = [pc EXCEPT ![w] = "done"]
            /\ result' = [result EXCEPT ![w] = "raised"]
            /\ UNCHANGED <<loc, counters, scan>>
    /\ UNCHANGED <<pre, srpm, target, ev, reports, comments, tasks, budget>>
    /\ UNCHANGED steve

EndCommon(w) ==
    \/ EndRun(w)
    \/ EndSetEndTime(w)
    \/ EndGetSrpmUrl(w)
    \/ EndSetSrpmUrl(w)
    \/ EndIncFinished(w)

HandleSrpmEnd(w) ==
    \/ SrpmFailReport(w)
    \/ SrpmFailNotify(w)
    \/ SrpmFailSetStatus(w)
    \/ SrpmFailMonitor(w)
    \/ SrpmSuccLoop(w)
    \/ SrpmSuccSetStatus(w)
    \/ SrpmSuccReport(w)

EndFailure(w) ==
    \/ EndFailCheck(w)
    \/ EndFailReport(w)
    \/ EndFailMeasure(w)
    \/ EndFailNotify(w)
    \/ EndFailSetStatus(w)

EndSuccess(w, I) ==
    \/ EndSuccComment(w, I)
    \/ EndSuccReport(w)
    \/ EndSuccSync(w)
    \/ EndSuccMeasure(w)
    \/ EndGetBuiltPackages(w, I)
    \/ EndSetBuiltPackages(w)
    \/ EndSetSuccess(w)
    \/ TfBegin(w, I)
    \/ TfLoop(w, I)

HandleScan(w, I) ==
    \/ ScanGate(w, I)
    \/ ScanFindBase(w, I)
    \/ ScanGetBaseSrpm(w, I)
    \/ ScanMkdtemp(w)
    \/ ScanDownloadBase(w)
    \/ ScanDownloadHead(w)
    \/ ScanSubmit(w, I)
    \/ ScanParse(w)
    \/ ScanReport(w)

EndHandler(w, I) ==
    \/ EndCommon(w)
    \/ HandleSrpmEnd(w)
    \/ EndFailure(w)
    \/ EndSuccess(w, I)
    \/ HandleScan(w, I)

Next ==
    \E w \in SeqWorkers :
       \/ \E e \in Events : Deliver(w, e)
       \/ PreCheck(w, Narrow)
       \/ StartHandler(w)
       \/ EndHandler(w, Narrow)
       \/ Raise(w)

\* One worker: callbacks are handled one after another, in any order and
\* with redelivery.
Spec == Init /\ [][Next]_vars

\* Two workers, one callback each, their steps interleaved; no external call
\* raises.
InitConc == InitRecords /\ budget = Cardinality(Workers) /\ faults = 0

ConcEvents ==
    {e \in Events : /\ e.known /\ e.timestamp # 0
                    /\ e.chroot \in {COPR_SRPM_CHROOT, ScanTarget}}

NextConc ==
    \E w \in Workers :
       \/ \E e \in ConcEvents : Deliver(w, e)
       \/ PreCheck(w, Single)
       \/ StartHandler(w)
       \/ EndCommon(w)
       \/ HandleSrpmEnd(w)
       \/ EndFailure(w)
       \/ EndSuccess(w, Single)
       \/ ScanGate(w, Single)

SpecConc == InitConc /\ [][NextConc]_vars

\* One successful build-end callback of the scan target, with every input of
\* the success path and of the scan orchestrator.
ScanEvents ==
    {e \in Events : /\ e.kind = "end" /\ e.known /\ e.chroot = ScanTarget
                    /\ e.status = COPR_API_SUCC_STATE}

InitScan == InitRecords /\ budget = Cardinality(ScanEvents) /\ faults = MaxFaults

NextScan ==
    \E w \in SeqWorkers :
       \/ \E e \in ScanEvents : Deliver(w, e)
       \/ PreCheck(w, Single)
       \/ EndCommon(w)
       \/ EndSuccess(w, Wide)
       \/ HandleScan(w, Wide)
       \/ Raise(w)

SpecScan == InitScan /\ [][NextScan]_vars

\* End callbacks of the SRPM chroot and of one target, in any order, one more
\* than MaxDeliveries of them, with a build service that may list no built
\* package.
BuiltEvents ==
    {e \in Events : /\ e.kind = "end" /\ e.known
                    /\ e.chroot \in {COPR_SRPM_CHROOT, ScanTarget}}

BuiltInputs == [Single EXCEPT !.built_packages = Wide.built_packages]

InitBuilt == InitRecords /\ budget = MaxDeliveries + 1 /\ faults = 0

NextBuilt ==
    \E w \in SeqWorkers :
       \/ \E e \in BuiltEvents : Deliver(w, e)
       \/ PreCheck(w, Single)
       \/ EndCommon(w)
       \/ HandleSrpmEnd(w)
       \/ EndFailure(w)
       \/ EndSuccess(w, BuiltInputs)
       \/ ScanGate(w, BuiltInputs)

SpecBuilt == InitBuilt /\ [][NextBuilt]_vars

\* ------------------------------------------------- SteveJobs, release event
\* The release event of the-namespace/the-repo, and the values of
\* enabled_private_namespaces of the service configuration.
ReleaseEvent ==
    [kind |-> "release", chroot |-> None, status |-> "published",
     timestamp |-> 1, known |-> TRUE]
PrivateNamespaces ==
    SUBSET {"github.com/the-namespace", "github.com/other-namespace",
            "gitlab.com/the-namespace"}

\* A worker takes a forge event and calls SteveJobs().process_message(event).
Receive(w, e) ==
    /\ pc[w] \in {"idle", "done"}
    /\ budget > 0
    /\ budget' = budget - 1
    /\ ev' = [ev EXCEPT ![w] = e]
    /\ pc' = [pc EXCEPT ![w] = "process_message"]
    /\ result' = [result EXCEPT ![w] = None]
    /\ loc' = [loc EXCEPT ![w] = NoLoc]
    /\ pre' = [pre EXCEPT ![w] =
                 [srpm |-> srpm, target |-> target, reports |-> Len(reports),
                  comments |-> Len(comments), counters |-> counters,
                  tasks |-> Len(tasks), scan |-> scan, steve |-> steve]]
    /\ UNCHANGED <<srpm, target, reports, comments, counters, tasks, scan, steve,
                   faults>>

\* process_message handles the event whatever the repository is.
ProcessMessageNoGate(w) ==
    /\ pc[w] = "process_message"
    /\ \E private \in BOOLEAN, enabled \in PrivateNamespaces :
         loc' = [loc EXCEPT ![w].private = private, ![w].enabled = enabled]
    /\ pc' = [pc EXCEPT ![w] = "process_message_dispatch"]
    /\ UNCHANGED <<pre, srpm, target, ev, result, reports, comments, counters,
                   tasks, scan, steve, budget, faults>>

\* process_message: a private repository whose namespace is not enabled gets
\* an empty list of processing results.
ProcessMessageGate(w) ==
    /\ pc[w] = "process_message"
    /\ \E private \in BOOLEAN, enabled \in PrivateNamespaces :
         /\ loc' = [loc EXCEPT ![w].private = private, ![w].enabled = enabled]
         /\ IF private /\ "github.com/the-namespace" \notin enabled
            THEN /\ pc' = [pc EXCEPT ![w] = "done"]
                 /\ steve' = [steve EXCEPT !.results = <<>>]
            ELSE /\ pc' = [pc EXCEPT ![w] = "process_message_dispatch"]
                 /\ UNCHANGED steve
    /\ UNCHANGED <<pre, srpm, target, ev, result, reports, comments, counters,
                   tasks, scan, budget, faults>>

\* process_message: the release record is looked up or created, the task is
\* reported as accepted, metrics are pushed and the propose-downstream task
\* is sent.
ProcessMessageDispatch(w) ==
    /\ pc[w] = "process_message_dispatch"
    /\ steve' = [steve EXCEPT !.triggers = @ + 1,
                              !.results = <<"propose_downstream">>]
    /\ reports' = reports \o
         Report(<<[kind |-> "propose-downstream", chroot |-> "main"]>>,
                StPending, "TASK_ACCEPTED", "")
    /\ counters' = [counters EXCEPT !.pushed = @ + 1]
    /\ tasks' = Append(tasks, [job |-> "propose_downstream", build_id |-> None,
                               tests_targets_override |-> {}])
    /\ pc' = [pc EXCEPT ![w] = "propose_downstream_start"]
    /\ UNCHANGED <<pre, srpm, target, ev, loc, result, comments, scan, budget,
                   faults>>

\* run_propose_downstream_handler: the sync-release records are created and
\* the start is reported.
ProposeDownstreamStart(w) ==
    /\ pc[w] = "propose_downstream_start"
    /\ steve' = [steve EXCEPT !.sync_release = "running",
                              !.sync_target = [status |-> "running",
                                               downstream_pr_url |-> None]]
    /\ reports' = reports \o
         Report(<<[kind |-> "propose-downstream", chroot |-> "main"]>>,
                StRunning, "Starting propose downstream...", "pd-info")
    /\ pc' = [pc EXCEPT ![w] = "propose_downstream_finish"]
    /\ UNCHANGED <<pre, srpm, target, ev, loc, result, comments, counters, tasks,
                   scan, budget, faults>>

\* run_propose_downstream_handler: sync_release, the records are closed, the
\* success is reported and metrics are pushed.
ProposeDownstreamFinish(w) ==
    /\ pc[w] = "propose_downstream_finish"
    /\ steve' = [steve EXCEPT !.sync_release = "finished",
                              !.sync_target = [status |-> "submitted",
                                               downstream_pr_url |-> "some_url"]]
    /\ reports' = reports \o
         Report(<<[kind |-> "propose-downstream", chroot |-> "main"]>>,
                StSuccess, "Propose downstream finished successfully.",
                "pd-info")
    /\ counters' = [counters EXCEPT !.pushed = @ + 1]
    /\ pc' = [pc EXCEPT ![w] = "done"]
    /\ result' = [result EXCEPT ![w] = "success"]
    /\ UNCHANGED <<pre, srpm, target, ev, loc, comments, tasks, scan, budget,
                   faults>>

InitSteve == InitRecords /\ budget = MaxDeliveries /\ faults = 0

NextSteve ==
    \E w \in SeqWorkers :
       \/ Receive(w, ReleaseEvent)
       \/ ProcessMessageGate(w)
       \/ ProcessMessageDispatch(w)
       \/ ProposeDownstreamStart(w)
       \/ ProposeDownstreamFinish(w)

\* Release events of one repository, processed one after another.
SpecSteve == InitSteve /\ [][NextSteve]_vars

\* The three handlers behind their checkers: a build is asked for, and the
\* start callbacks and the SRPM end callbacks of the build arrive.
CheckEvents ==
    {BuildEvent} \cup
    {e \in Events : e.known /\ (e.kind = "start" \/ e.chroot = COPR_SRPM_CHROOT)}

InitCheck == InitRecords /\ budget = MaxDeliveries /\ faults = 0

NextCheck ==
    \E w \in SeqWorkers :
       \/ \E e \in CheckEvents : Deliver(w, e)
       \/ Redeliver(w)
       \/ PreCheck(w, Wide)
       \/ BuildRun(w)
       \/ StartHandler(w)
       \/ EndRun(w)
       \/ EndSetEndTime(w)
       \/ EndGetSrpmUrl(w)
       \/ EndSetSrpmUrl(w)
       \/ HandleSrpmEnd(w)

SpecCheck == InitCheck /\ [][NextCheck]_vars

\* ------------------------------------ github_handlers.py: GithubCoprBuildHandler
\* PRCheckName.get_build_check()
GithubBuildCheck == [kind |-> "PRCheckName.get_build_check", chroot |-> None]
\* PRCheckName.get_testing_farm_check() + "-" + chroot
GithubTestingFarmCheck(chroot) ==
    [kind |-> "PRCheckName.get_testing_farm_check", chroot |-> chroot]

\* The events the handler is instantiated for: its two triggers.
GithubEvents ==
    {[kind |-> trigger, chroot |-> None, status |-> None, timestamp |-> 0,
      known |-> TRUE] : trigger \in {"pull_request", "release"}}

\* package_config.jobs: without a tests job, with one, with two.
GithubJobs ==
    { <<[job |-> "copr_build", targets |-> TargetSeq]>>,
      <<[job |-> "copr_build", targets |-> TargetSeq],
        [job |-> "tests", targets |-> TargetSeq]>>,
      <<[job |-> "tests", targets |-> <<OtherTarget>>],
        [job |-> "copr_build", targets |-> TargetSeq],
        [job |-> "tests", targets |-> TargetSeq]>> }

\* get_raw_request: the RequestResponse of the trigger url, its json None
\* when the body is not JSON; and the falsy response.
TestingFarmResponses ==
    {[falsy |-> TRUE, status_code |-> 0, json |-> None]} \cup
    [falsy : {FALSE}, status_code : {200, 500}, json : {None, "dict"}]

\* A worker takes a forge event and instantiates GithubCoprBuildHandler.
GithubReceive(w, e) ==
    /\ pc[w] \in {"idle", "done"}
    /\ budget > 0
    /\ budget' = budget - 1
    /\ ev' = [ev EXCEPT ![w] = e]
    /\ pc' = [pc EXCEPT ![w] = "gh_run"]
    /\ result' = [result EXCEPT ![w] = None]
    /\ loc' = [loc EXCEPT ![w] = NoLoc]
    /\ pre' = [pre EXCEPT ![w] =
                 [srpm |-> srpm, target |-> target, reports |-> Len(reports),
                  comments |-> Len(comments), counters |-> counters,
                  tasks |-> Len(tasks), scan |-> scan, steve |-> steve]]
    /\ UNCHANGED <<srpm, target, reports, comments, counters, tasks, scan, steve,
                   faults>>

\* GithubCoprBuildHandler.run
GithubRun(w) ==
    /\ pc[w] = "gh_run"
    /\ IF ev[w].kind = "pull_request"
       THEN Goto(w, "gh_collaborators") /\ UNCHANGED <<result, loc>>
       ELSE Return(w, FALSE)
    /\ UNCHANGED <<pre, srpm, target, ev, reports, comments, counters, tasks,
                   scan, steve, budget, faults>>

\* handle_pull_request with no check of the author.
HandlePullRequestAnyAuthor(w) ==
    /\ pc[w] = "gh_collaborators"
    /\ \E collaborator \in BOOLEAN :
         loc' = [loc EXCEPT ![w].gh.collaborator = collaborator]
    /\ Goto(w, "gh_submit")
    /\ UNCHANGED <<pre, srpm, target, ev, result, reports, comments, counters,
                   tasks, scan, steve, budget, faults>>

\* handle_pull_request: if self.event.github_login not in collaborators
HandlePullRequestCollaborators(w) ==
    /\ pc[w] = "gh_collaborators"
    /\ \E collaborator \in BOOLEAN :
         /\ loc' = [loc EXCEPT ![w].gh.collaborator = collaborator]
         /\ IF collaborator
            THEN Goto(w, "gh_submit") /\ UNCHANGED <<result, reports>>
            ELSE /\ reports' = reports \o
                      Report(<<GithubBuildCheck>>, StFailure,
                             "Only collaborators can trigger Packit-as-a-Service",
                             "")
                 /\ Finish(w, FALSE)
    /\ UNCHANGED <<pre, srpm, target, ev, comments, counters, tasks, scan,
                   steve, budget, faults>>

\* The except clauses of handle_pull_request: the comment posted to the pull
\* request (None: no comment) and the message reported and returned.
SubmissionFailure(outcome) ==
    CASE outcome = "SandcastleTimeoutReached" ->
           [comment |-> "You have reached 10-minute timeout while creating the SRPM.",
            msg |-> "Timeout reached while creating a SRPM."]
      [] outcome = "SandcastleCommandFailed" ->
           [comment |-> "There was an error while creating a SRPM.",
            msg |-> "Failed to create a SRPM."]
      [] outcome = "FailedCreateSRPM" ->
           [comment |-> None, msg |-> "Failed to create a SRPM."]
      [] OTHER ->
           [comment |-> None,
            msg |-> "There was an error while running the build: {ex}"]

\* The except clauses return without reporting.
HandlePullRequestSubmitSilent(w) ==
    /\ pc[w] = "gh_submit"
    /\ \E outcome \in {"build_id", "SandcastleTimeoutReached",
                       "SandcastleCommandFailed", "FailedCreateSRPM",
                       "Exception"} :
         /\ loc' = [loc EXCEPT ![w].gh.submitted = @ + 1,
                               ![w].gh.outcome = outcome]
         /\ reports' = reports \o
              Report(<<GithubBuildCheck>>, StPending,
                     "RPM build has just started...", "")
         /\ UNCHANGED comments
         /\ IF outcome = "build_id"
            THEN Goto(w, "gh_watch") /\ UNCHANGED result
            ELSE Finish(w, FALSE)
    /\ UNCHANGED <<pre, srpm, target, ev, counters, tasks, scan, steve, budget,
                   faults>>

\* handle_pull_request, the try statement: the pending report, run_copr_build
\* and the except clauses.
HandlePullRequestSubmit(w) ==
    /\ pc[w] = "gh_submit"
    /\ \E outcome \in {"build_id", "SandcastleTimeoutReached",
                       "SandcastleCommandFailed", "FailedCreateSRPM",
                       "Exception"} :
         /\ loc' = [loc EXCEPT ![w].gh.submitted = @ + 1,
                               ![w].gh.outcome = outcome]
         /\ IF outcome = "build_id"
            THEN /\ reports' = reports \o
                      Report(<<GithubBuildCheck>>, StPending,
                             "RPM build has just started...", "")
                 /\ Goto(w, "gh_watch")
                 /\ UNCHANGED <<result, comments>>
            ELSE /\ reports' = reports \o
                      Report(<<GithubBuildCheck>>, StPending,
                             "RPM build has just started...", "") \o
                      Report(<<GithubBuildCheck>>, StFailure,
                             SubmissionFailure(outcome).msg, "")
                 /\ comments' =
                      IF SubmissionFailure(outcome).comment # None
                      THEN Append(comments, SubmissionFailure(outcome).comment)
                      ELSE comments
                 /\ Finish(w, FALSE)
    /\ UNCHANGED <<pre, srpm, target, ev, counters, tasks, scan, steve, budget,
                   faults>>

\* handle_pull_request: the build id is saved and the build is watched; a
\* build that has not succeeded leaves the function without a return
\* statement, and run() returns None.
HandlePullRequestWatch(w) ==
    /\ pc[w] = "gh_watch"
    /\ \E build_state \in {"succeeded", "failed"} :
         /\ loc' = [loc EXCEPT ![w].gh.build_id = "build_id",
                               ![w].gh.watched = TRUE,
                               ![w].gh.build_state = build_state]
         /\ IF build_state = "succeeded"
            THEN Goto(w, "gh_succeeded") /\ UNCHANGED result
            ELSE /\ pc' = [pc EXCEPT ![w] = "done"]
                 /\ result' = [result EXCEPT ![w] = "None returned"]
    /\ UNCHANGED <<pre, srpm, target, ev, reports, comments, counters, tasks,
                   scan, steve, budget, faults>>

\* get_tests_for_build: the first tests job, a job without a type for None.
get_tests_for_build(jobs) ==
    LET tests == {i \in 1..Len(jobs) : jobs[i].job = "tests"} IN
    IF tests = {} THEN [job |-> None, targets |-> <<>>]
    ELSE jobs[CHOOSE i \in tests : \A j \in tests : i <= j]

\* handle_pull_request, build_state == "succeeded": the comment, and the
\* testing farm handler when the configuration has a tests job.
HandlePullRequestSucceeded(w) ==
    /\ pc[w] = "gh_succeeded"
    /\ comments' = Append(comments, "Congratulations! The build has finished")
    /\ \E jobs \in GithubJobs :
         LET test_job_config == get_tests_for_build(jobs) IN
         IF test_job_config.job # None
         THEN /\ loc' = [loc EXCEPT ![w].gh.tf = TRUE,
                                    ![w].gh.chroots = test_job_config.targets,
                                    ![w].i = 1]
              /\ Goto(w, "ghtf_request")
              /\ UNCHANGED result
         ELSE Return(w, TRUE)
    /\ UNCHANGED <<pre, srpm, target, ev, reports, counters, tasks, scan, steve,
                   budget, faults>>

\* GithubTestingFarmHandler.run, the head of the loop and
\* send_testing_farm_request, which raises when it cannot connect; after the
\* loop run() returns success and handle_pull_request returns success.
TestingFarmRequest(w) ==
    /\ pc[w] = "ghtf_request"
    /\ IF loc[w].i <= Len(loc[w].gh.chroots)
       THEN \E connected \in BOOLEAN, req \in TestingFarmResponses :
              IF connected
              THEN /\ loc' = [loc EXCEPT
                                ![w].gh.requests =
                                   Append(@, loc[w].gh.chroots[loc[w].i]),
                                ![w].gh.req = req]
                   /\ Goto(w, "ghtf_response")
                   /\ UNCHANGED result
              ELSE /\ loc' = [loc EXCEPT
                                ![w].gh.requests =
                                   Append(@, loc[w].gh.chroots[loc[w].i]),
                                ![w].gh.tf_result = "ConnectionError"]
                   /\ pc' = [pc EXCEPT ![w] = "done"]
                   /\ result' = [result EXCEPT ![w] = "raised"]
       ELSE /\ loc' = [loc EXCEPT ![w].gh.tf_result = "success"]
            /\ Finish(w, TRUE)
    /\ UNCHANGED <<pre, srpm, target, ev, reports, comments, counters, tasks,
                   scan, steve, budget, faults>>

\* GithubTestingFarmHandler.run, the body of the loop after the request.  The
\* caller drops the result of the handler and returns success; an exception
\* (req.json is None) leaves both.
TestingFarmResponse(w) ==
    /\ pc[w] = "ghtf_response"
    /\ LET req == loc[w].gh.req
           check == GithubTestingFarmCheck(loc[w].gh.chroots[loc[w].i])
       IN
       IF req.falsy
       THEN /\ reports' = reports \o
                 Report(<<check>>, StFailure,
                        "Failed to post request to testing farm API.", "")
            /\ loc' = [loc EXCEPT ![w].gh.tf_result = "failure"]
            /\ Finish(w, TRUE)
       ELSE IF req.json = None
       THEN /\ loc' = [loc EXCEPT ![w].gh.tf_result = "raised"]
            /\ pc' = [pc EXCEPT ![w] = "done"]
            /\ result' = [result EXCEPT ![w] = "raised"]
            /\ UNCHANGED reports
       ELSE IF req.status_code # 200
       THEN /\ reports' = reports \o
                 Report(<<check>>, StFailure, "req.json[message]", "")
            /\ loc' = [loc EXCEPT ![w].gh.tf_result = "failure"]
            /\ Finish(w, TRUE)
       ELSE /\ reports' = reports \o
                 Report(<<check>>, StPending, "Tests are running ...",
                        "req.json[url]")
            /\ loc' = [loc EXCEPT ![w].i = @ + 1]
            /\ Goto(w, "ghtf_request")
            /\ UNCHANGED result
    /\ UNCHANGED <<pre, srpm, target, ev, comments, counters, tasks, scan,
                   steve, budget, faults>>

NextGithub ==
    \E w \in SeqWorkers :
       \/ \E e \in GithubEvents : GithubReceive(w, e)
       \/ GithubRun(w)
       \/ HandlePullRequestCollaborators(w)
       \/ HandlePullRequestSubmit(w)
       \/ HandlePullRequestWatch(w)
       \/ HandlePullRequestSucceeded(w)
       \/ TestingFarmRequest(w)
       \/ TestingFarmResponse(w)

\* Pull request and release events handled one after the other by the
\* handlers of github_handlers.py.
SpecGithub == InitCheck /\ [][NextGithub]_vars

\* ================================================================ claims
\* The record a run found when it began.
PreBuildOf(w) ==
    IF ev[w].chroot = COPR_SRPM_CHROOT THEN pre[w].srpm
    ELSE pre[w].target[ev[w].chroot]

\* The handler's run() was called and has returned or raised.
RunDone(w) == pc[w] = "done" /\ loc[w].failed = {}

\* A run of the end handler on a record the callback names has returned.
EndDone(w) == RunDone(w) /\ ev[w].kind = "end" /\ ev[w].known

\* What the run has reported since it began.
ReportedSince(w) == SubSeq(reports, pre[w].reports + 1, Len(reports))

\* Nothing reported, posted, counted or enqueued, and no row changed, since
\* the run began.
NothingSince(w) ==
    /\ srpm = pre[w].srpm
    /\ target = pre[w].target
    /\ Len(reports) = pre[w].reports
    /\ Len(comments) = pre[w].comments
    /\ counters = pre[w].counters
    /\ Len(tasks) = pre[w].tasks

\* C1: a build-end callback processed for a record (binary target or SRPM)
\* whose status is already success or failure returns a success result,
\* emits no status report and no comment, increments no counter, enqueues no
\* follow-up job and changes no field of any record.
EndIdempotent ==
    \A w \in SeqWorkers :
       (EndDone(w) /\ PreBuildOf(w).status \in {Success, Failure})
          => (result[w] = "success" /\ NothingSince(w))

\* A failed end callback of a binary target has been processed on a record
\* that had already failed.
EndIdempotentWitness ==
    /\ EndDone(1)
    /\ ev[1].chroot \in Targets
    /\ PreBuildOf(1).status = Failure
    /\ PreBuildOf(1).end # None
    /\ result[1] = "success"

StatusRank(status) ==
    CASE status = WaitingForSrpm -> 0
      [] status = Pending -> 1
      [] status = Success -> 3
      [] status = Failure -> 3
      [] OTHER -> 2

\* C2: over every sequence of start and end callbacks, a binary target's
\* status only moves forward along waiting_for_srpm -> pending -> running ->
\* {success, failure}, and a status of success or failure is never changed
\* again, the end callback of the SRPM chroot included.
MonotonicStatus ==
    [][\A t \in Targets :
          /\ StatusRank(target'[t].status) >= StatusRank(target[t].status)
          /\ target[t].status \in {Success, Failure}
                => target'[t].status = target[t].status]_vars

\* C3: at the granularity of single-field updates and for every order of
\* delivery, a binary target has status pending only if the SRPM record of
\* the build already has status success.
SrpmGating ==
    \A t \in Targets : target[t].status = Pending => srpm.status = Success

\* C4, as the specification states it: once the SRPM record has failed, no
\* later callback of any kind moves a sibling target out of waiting_for_srpm.
SiblingsWaitForever ==
    [][srpm.status = Failure =>
          \A t \in Targets :
             target[t].status = WaitingForSrpm
                => target'[t].status = WaitingForSrpm]_vars

\* C4: once the SRPM record has failed it stays failed and no callback of the
\* SRPM chroot changes the status of a sibling target; the status of a
\* target changes only in the run of a callback of that same target, by the
\* start handler's set_status(pending) or the end handler's
\* set_status(failure) or set_status(success).
SiblingsMoveOnlyByOwnCallback ==
    [][srpm.status = Failure =>
          /\ srpm'.status = Failure
          /\ \A t \in Targets :
                target'[t].status # target[t].status =>
                   \E w \in SeqWorkers :
                      /\ ev[w].chroot = t
                      /\ \/ /\ pc[w] = "start_set_pending"
                            /\ target'[t].status = Pending
                         \/ /\ pc[w] = "end_fail_set_status"
                            /\ target'[t].status = Failure
                         \/ /\ pc[w] = "end_set_success"
                            /\ target'[t].status = Success]_vars

\* A successful end callback of the SRPM chroot has been processed after the
\* SRPM record failed, and every target is still waiting.
SiblingsMoveOnlyByOwnCallbackWitness ==
    /\ EndDone(1)
    /\ ev[1].chroot = COPR_SRPM_CHROOT
    /\ ev[1].status = COPR_API_SUCC_STATE
    /\ pre[1].srpm.status = Failure
    /\ srpm.status = Failure
    /\ \A t \in Targets : target[t].status = WaitingForSrpm

\* A failed end callback of the SRPM chroot has been processed to its return.
SrpmFailDone(w) ==
    /\ EndDone(w)
    /\ ev[w].chroot = COPR_SRPM_CHROOT
    /\ ev[w].status # COPR_API_SUCC_STATE
    /\ result[w] # "raised"

\* C5: a failed end callback of the SRPM chroot, processed to its return on
\* an SRPM record that is neither success nor failure, reports failure to
\* all the check runs, sets the SRPM record to failure, increases the
\* counter of builds not submitted by the number of build targets and
\* returns a failure result; a redelivery of the callback adds nothing to
\* the counter and reports nothing.
SrpmFailure ==
    \A w \in SeqWorkers :
       SrpmFailDone(w) =>
          /\ pre[w].srpm.status \notin {Success, Failure} =>
                /\ ReportedSince(w) =
                     Report(ChecksAll, StFailure,
                            "SRPM build failed, check the logs for details.",
                            "srpm-info")
                /\ srpm.status = Failure
                /\ counters.not_submitted =
                     pre[w].counters.not_submitted + Cardinality(Targets)
                /\ result[w] = "failure"
          /\ pre[w].srpm.status = Failure =>
                /\ counters.not_submitted = pre[w].counters.not_submitted
                /\ Len(reports) = pre[w].reports

\* The failed end callback of the SRPM chroot has been redelivered after it
\* was processed once: the counter stands at the number of targets.
SrpmFailureWitness ==
    /\ SrpmFailDone(1)
    /\ pre[1].srpm.status = Failure
    /\ pre[1].counters.not_submitted = Cardinality(Targets)
    /\ counters.not_submitted = Cardinality(Targets)
    /\ Len(reports) = Len(ChecksAll)

\* C6: when two workers process the same build-end callback of a binary
\* target concurrently, the guard on the record's status alone ensures that
\* the result is reported to the target's check run at most once, that the
\* counter of finished builds goes up at most once and that each test job is
\* enqueued at most once.
ConcurrentEndOnce ==
    (/\ ev[1] = ev[2]
     /\ ev[1].kind = "end" /\ ev[1].known /\ ev[1].chroot \in Targets)
       => /\ Cardinality({i \in 1..Len(reports) :
                            /\ reports[i].check = BuildCheck(ev[1].chroot)
                            /\ reports[i].state \in {StSuccess, StFailure}}) <= 1
          /\ counters.finished <= 1
          /\ \A i, j \in 1..Len(tasks) : tasks[i].job = tasks[j].job => i = j

\* C7: whatever step of the scan raises, the exception is sent to sentry and
\* swallowed: the handler returns a success result, the records keep their
\* values (the target stays success) and the test jobs enqueued before the
\* scan stay enqueued.
ScanIsolation ==
    [][\A w \in SeqWorkers :
          (/\ pc[w] \in ScanPcs
           /\ faults' # faults \/ counters'.sentry # counters.sentry)
             => /\ counters'.sentry = counters.sentry + 1
                /\ pc'[w] = "done"
                /\ result'[w] = "success"
                /\ target' = target
                /\ target[ev[w].chroot].status = Success
                /\ srpm' = srpm
                /\ tasks' = tasks
                /\ reports' = reports]_vars

\* An external call of the scan raised after the test jobs were enqueued: the
\* run returned success with one more exception in sentry.
ScanIsolationWitness ==
    /\ EndDone(1)
    /\ ev[1].chroot = ScanTarget
    /\ faults < MaxFaults
    /\ counters.sentry = pre[1].counters.sentry + 1
    /\ result[1] = "success"
    /\ target[ScanTarget].status = Success
    /\ Len(tasks) > pre[1].tasks

\* C8: handle_scan is called only when the environment does not disable the
\* scan, the event is a pull request, the finished target is
\* fedora-rawhide-x86_64 and the job enables osh_diff_scan_after_copr_build;
\* never for another target, a failed build end or an end of the SRPM chroot.
ScanPreconditions ==
    \A w \in SeqWorkers :
       /\ pc[w] \in ScanPcs =>
             /\ ev[w].kind = "end"
             /\ ev[w].chroot = "fedora-rawhide-x86_64"
             /\ ev[w].status = COPR_API_SUCC_STATE
       /\ pc[w] = "scan_find_base" =>
             /\ loc[w].pre.env \in {Unset, "False", "0"}
             /\ loc[w].pre.is_pr
             /\ loc[w].pre.osh

\* handle_scan has been called with the variable set to a value that does
\* not disable the scan.
ScanPreconditionsWitness ==
    /\ pc[1] = "scan_find_base"
    /\ loc[1].pre.env = "0"
    /\ ev[1].chroot = ScanTarget

\* The positions in the configuration of the commit-triggered build jobs for
\* the target branch, by explicit branch or by the default branch.
BaseCandidates(jobs, target_branch) ==
    {i \in 1..Len(jobs) :
       /\ jobs[i].type \in {"copr_build", "build"}
       /\ jobs[i].trigger = "commit"
       /\ IF jobs[i].branch = None THEN DefaultBranch = target_branch
          ELSE jobs[i].branch = target_branch}

\* The reports of the run to the check run of the scan.
ScanReports(w) ==
    SelectSeq(ReportedSince(w), LAMBDA r : r.check = ScanCheck)

\* C9: find_base_build_job returns the first job, in configuration order,
\* that is a commit-triggered build job for the target branch of the pull
\* request (explicit branch, or no branch and the default branch); when no
\* job matches, nothing is downloaded, submitted or reported.
BaselineSelection ==
    \A w \in SeqWorkers :
       loc[w].config # <<>> =>
          LET found == BaseCandidates(loc[w].config, loc[w].target_branch) IN
          IF found # {}
          THEN loc[w].base =
                 loc[w].config[CHOOSE i \in found : \A j \in found : i <= j]
          ELSE /\ loc[w].base = NoJob
               /\ pc[w] = "done"
               /\ result[w] = "success"
               /\ loc[w].dl = <<>>
               /\ loc[w].sub = <<>>
               /\ ScanReports(w) = <<>>

\* Two commit-triggered build jobs, the second one for the target branch:
\* the second is the base build job.
BaselineSelectionWitness ==
    /\ pc[1] = "scan_get_base_srpm"
    /\ Len(loc[1].config) = 2
    /\ loc[1].config[1].trigger = "commit"
    /\ loc[1].config[1].type = "copr_build"
    /\ loc[1].config[1].branch # loc[1].target_branch
    /\ loc[1].base = loc[1].config[2]

\* A successful end callback of the scan target has been processed to its
\* return.
ScanRunDone(w) ==
    /\ EndDone(w)
    /\ ev[w].chroot = ScanTarget
    /\ ev[w].status = COPR_API_SUCC_STATE

\* The output has a JSON object with a non-empty url somewhere in it.
ContainsUrlObject(output) ==
    \E i, j \in 1..Len(output) :
       /\ i < j
       /\ output[i] = "{" /\ output[j] = "}"
       /\ \A k \in (i + 1)..(j - 1) : output[k] \in Members
       /\ \E k \in (i + 1)..(j - 1) : output[k] \in {"u1", "u2"}
       /\ LastUrl(SubSeq(output, i + 1, j - 1), j - i - 1) # ""

\* Both files were downloaded, the base one first.
BothDownloaded(w) ==
    /\ Len(loc[w].dl) = 2
    /\ loc[w].dl[1] = [url |-> "base-srpm-url", ok |-> TRUE]
    /\ loc[w].dl[2] = [url |-> "head-srpm-url", ok |-> TRUE]

\* One scan was submitted, the head SRPM against the base SRPM.
OneSubmitted(w) ==
    loc[w].sub = <<[srpm_path |-> "head-srpm-url", base_srpm |-> "base-srpm-url"]>>

ScanReportOf(url) ==
    Report(<<[kind |-> "osh-diff-scan", chroot |-> "fedora-rawhide-x86_64"]>>,
           StSuccess,
           "Scan in OpenScanHub submitted successfully. Check the URL for more details.",
           url)

CommentOnce ==
    \A i \in 1..Len(comments) :
       (i > 1 /\ comments[i] = CongratsMsg) => comments[i - 1] # CongratsMsg

\* The successful end callbacks of both targets have been processed, the
\* second one after the first one had posted the comment.
CommentOnceWitness ==
    /\ EndDone(1)
    /\ ev[1].chroot \in Targets
    /\ ev[1].status = COPR_API_SUCC_STATE
    /\ result[1] = "success"
    /\ \A t \in Targets : target[t].status = Success
    /\ pre[1].comments = 1
    /\ comments = <<CongratsMsg>>

\* C12: when the download of the base SRPM or of the head SRPM fails,
\* handle_scan ends without calling the scan service and without a report;
\* when the base download fails the head download is not attempted.
NoPartialScan ==
    \A w \in SeqWorkers :
       /\ (\E i \in 1..Len(loc[w].dl) : ~loc[w].dl[i].ok) =>
             /\ pc[w] = "done"
             /\ result[w] = "success"
             /\ loc[w].sub = <<>>
             /\ ScanReports(w) = <<>>
       /\ (loc[w].dl # <<>> /\ ~loc[w].dl[1].ok) => Len(loc[w].dl) = 1

\* The base SRPM was downloaded and the download of the head SRPM failed.
NoPartialScanWitness ==
    /\ ScanRunDone(1)
    /\ Len(loc[1].dl) = 2
    /\ loc[1].dl[1].ok
    /\ loc[1].dl[2] = [url |-> "head-srpm-url", ok |-> FALSE]
    /\ loc[1].sub = <<>>

\* C13: the temporary directory of handle_scan exists only while the handler
\* is inside the with block; once handle_scan has finished, by a failed
\* download, an empty output, an output without url, a report or an
\* exception, the directory is gone.
TmpdirScoped ==
    \A w \in SeqWorkers :
       w \in scan.tmpdirs =>
          pc[w] \in {"scan_download_base", "scan_download_head", "scan_submit",
                     "scan_parse", "scan_report"}

\* An exception was raised inside the with block after both downloads, and
\* the run has returned with no directory left.
TmpdirScopedWitness ==
    /\ ScanRunDone(1)
    /\ BothDownloaded(1)
    /\ counters.sentry = pre[1].counters.sentry + 1
    /\ scan.tmpdirs = {}

\* C14: for every non-empty output of the scan service whose last
\* brace-delimited text is not valid JSON (nested braces included), or which
\* has no brace-delimited text, or whose object has no url, handle_scan
\* returns without a report and without raising: nothing reaches sentry.
MalformedOutputNeverRaises ==
    \A w \in SeqWorkers :
       (/\ ScanRunDone(w)
        /\ faults = MaxFaults
        /\ Len(loc[w].sub) = 1
        /\ loc[w].output # <<>>
        /\ LET response_dict == parse_dict_from_output(loc[w].output)
           IN response_dict.raised \/ response_dict.url \in {None, ""})
          => /\ ScanReports(w) = <<>>
             /\ counters.sentry = pre[w].counters.sentry
             /\ result[w] = "success"

\* C15: a start or end callback whose build id has no stored record returns
\* a failure result and creates or changes no record, reports nothing,
\* counts nothing and enqueues nothing.
MissingRecord ==
    \A w \in SeqWorkers :
       (RunDone(w) /\ ~ev[w].known)
          => (result[w] = "failure" /\ NothingSince(w))

\* A start callback without a record has been processed after another
\* callback had already reported.
MissingRecordWitness ==
    /\ RunDone(1)
    /\ ev[1].kind = "start"
    /\ ~ev[1].known
    /\ result[1] = "failure"
    /\ reports # <<>>

\* The chain of each handler, as the claim lists it.
ExpectedChain(kind) ==
    IF kind = "build"
    THEN {"IsJobConfigTriggerMatching", "IsGitForgeProjectAndEventOk",
          "CanActorRunTestsJob"}
    ELSE {"AreOwnerAndProjectMatchingJob", "IsPackageMatchingJobView"}
           \cup IF kind = "start" THEN {"BuildNotAlreadyStarted"} ELSE {}

\* C16: run() of a handler executes only if every checker of its chain has
\* passed (for the start handler also: the build has no start time yet);
\* when a checker fails the outcome is a success result and no record is
\* changed, nothing is reported and nothing is enqueued.
CheckerGating ==
    \A w \in SeqWorkers :
       /\ pc[w] \notin {"idle", "pre_check"} =>
             loc[w].chain = ExpectedChain(ev[w].kind)
       /\ pc[w] \notin {"idle", "pre_check", "done"} => loc[w].failed = {}
       /\ (pc[w] = "start_run" /\ ev[w].known) => BuildOf(ev[w]).start = None
       /\ (pc[w] = "done" /\ loc[w].failed # {}) =>
             (result[w] = "success" /\ NothingSince(w))

\* A build was submitted, and a second request for a build was turned down
\* by one checker of the chain.
CheckerGatingWitness ==
    /\ pc[1] = "done"
    /\ ev[1] = BuildEvent
    /\ loc[1].failed = {"CanActorRunTestsJob"}
    /\ result[1] = "success"
    /\ pre[1].counters.submitted = 1
    /\ counters.submitted = 1

\* The positions of the test jobs the claim selects for a finished target.
FanOutJobs(jobs, labels, chroot) ==
    {i \in 1..Len(jobs) :
       /\ ~jobs[i].skip_build
       /\ ~jobs[i].manual_trigger
       /\ \/ ~(/\ jobs[i].trigger = "pull_request"
               /\ jobs[i].present # {} \/ jobs[i].absent # {})
          \/ /\ jobs[i].present = {} \/ jobs[i].present \cap labels # {}
             /\ jobs[i].absent \cap labels = {}
       /\ chroot \in jobs[i].targets}

\* A successful end callback of a binary target was processed, on a record
\* that was not yet success or failure, to the return of its run.
SuccessRunDone(w) ==
    /\ EndDone(w)
    /\ ev[w].chroot \in Targets
    /\ ev[w].status = COPR_API_SUCC_STATE
    /\ PreBuildOf(w).status \notin {Success, Failure}
    /\ result[w] = "success"

\* C17: on a successful build end of target T the tasks enqueued are exactly
\* one per configured test job that is not skip_build, not manual_trigger,
\* that is not a pull-request job with label requirements or whose
\* requirements the labels of the pull request satisfy, and whose build
\* targets include T; each task carries the build record and the test
\* targets mapped from T.
TestFanOut ==
    \A w \in SeqWorkers :
       SuccessRunDone(w) =>
          LET chosen == FanOutJobs(loc[w].jobs, loc[w].labels, ev[w].chroot)
              added == (pre[w].tasks + 1)..Len(tasks)
          IN /\ {tasks[k] : k \in added} =
                  {[job |-> i, build_id |-> ev[w].chroot,
                    tests_targets_override |->
                      TestTargets(loc[w].jobs[i], ev[w].chroot)] : i \in chosen}
             /\ Cardinality(added) = Cardinality(chosen)

\* The pull request has the label the fourth job requires: the first and
\* the fourth job are enqueued, the other three are not.
TestFanOutWitness ==
    /\ SuccessRunDone(1)
    /\ loc[1].jobs = TestJobs
    /\ loc[1].labels = {"ready"}
    /\ ev[1].chroot = ScanTarget
    /\ Len(tasks) = pre[1].tasks + 2
    /\ tasks[Len(tasks)].job = 4
    /\ tasks[Len(tasks)].tests_targets_override = {"centos-stream-x86_64"}

BinFailDone(w) ==
    /\ EndDone(w)
    /\ ev[w].chroot \in Targets
    /\ ev[w].status # COPR_API_SUCC_STATE
    /\ result[w] = "failure"

\* How many of the first n reports are failure reports to the check.
FailureReports(check, n) ==
    Cardinality({i \in 1..n : reports[i].check = check
                              /\ reports[i].state = StFailure})

\* C19: a failed end callback of a binary target reports the failure to the
\* check runs of the target and fires the failure notification only if the
\* SRPM record is not failure; either way the target is set to failure and
\* the result is a failure.  After an SRPM failure, a check run that had at
\* most one failure report before the callback has at most one after it.
NoDuplicateFailure ==
    \A w \in SeqWorkers :
       BinFailDone(w) =>
          /\ target[ev[w].chroot].status = Failure
          /\ IF pre[w].srpm.status # Failure
             THEN /\ ReportedSince(w) =
                       Report(ChecksAllForChroot(ev[w].chroot), StFailure,
                              "RPMs failed to be built.", "build-info")
                  /\ counters.notified = pre[w].counters.notified + 1
             ELSE /\ Len(reports) = pre[w].reports
                  /\ counters.notified = pre[w].counters.notified
                  /\ \A i \in 1..Len(ChecksAll) :
                        FailureReports(ChecksAll[i], pre[w].reports) <= 1
                           => FailureReports(ChecksAll[i], Len(reports)) <= 1

\* The SRPM build failed and was reported, then the failed end callback of a
\* binary target was processed: every check run has one failure report.
NoDuplicateFailureWitness ==
    /\ BinFailDone(1)
    /\ pre[1].srpm.status = Failure
    /\ target[ev[1].chroot].status = Failure
    /\ \A i \in 1..Len(ChecksAll) :
          FailureReports(ChecksAll[i], Len(reports)) = 1

\* C20: when a start callback (with or without a timestamp) whose handler
\* ran on a record that is not in a final state is delivered a second time,
\* the second delivery returns success and changes nothing: no field of a
\* record, no report ("in progress" stays reported once) and no counter (the
\* builds-started counter is not incremented again).
StartIdempotent ==
    \A w \in SeqWorkers :
       (/\ pc[w] = "done"
        /\ ev[w].kind = "start"
        /\ ev[w].known
        /\ loc[w].again
        /\ ~IsFinalState(PreBuildOf(w).status))
          => (result[w] = "success" /\ NothingSince(w))

\* A start callback was delivered for a record that was already success or
\* failure, and its processing came to an end without an exception.
LateStartDone(w) ==
    /\ pc[w] = "done"
    /\ ev[w].kind = "start"
    /\ ev[w].known
    /\ IsFinalState(PreBuildOf(w).status)
    /\ result[w] # "raised"

\* C21, as claimed: a start callback processed for a record that is already
\* success or failure returns success, reports nothing, counts nothing and
\* changes no field of the record, the start time included.
LateStartNoOp ==
    \A w \in SeqWorkers :
       LateStartDone(w) => (result[w] = "success" /\ NothingSince(w))

\* C21, amended: such a callback returns success, reports nothing, counts
\* nothing and leaves every field of every record as it was, except the
\* start time of its own record: when run() is reached (the start time was
\* unset and the checkers passed) the start time becomes the time of the
\* callback's timestamp, and stays unset for a payload without a timestamp.
LateStartSetsOnlyStartTime ==
    \A w \in SeqWorkers :
       LateStartDone(w) =>
          /\ result[w] = "success"
          /\ Len(reports) = pre[w].reports
          /\ Len(comments) = pre[w].comments
          /\ Len(tasks) = pre[w].tasks
          /\ counters = pre[w].counters
          /\ LET started ==
                   IF loc[w].failed = {} /\ PreBuildOf(w).start = None
                   THEN ToTime(ev[w].timestamp)
                   ELSE PreBuildOf(w).start
             IN IF ev[w].chroot = COPR_SRPM_CHROOT
                THEN /\ srpm = [pre[w].srpm EXCEPT !.start = started]
                     /\ target = pre[w].target
                ELSE /\ srpm = pre[w].srpm
                     /\ target = [pre[w].target EXCEPT
                                    ![ev[w].chroot].start = started]

\* The end callback of a binary target was processed before its start
\* callback: the late start callback has set the start time and nothing else.
LateStartWitness ==
    /\ LateStartDone(1)
    /\ ev[1].chroot \in Targets
    /\ ev[1].timestamp = 1
    /\ loc[1].failed = {}
    /\ pre[1].target[ev[1].chroot].start = None
    /\ target[ev[1].chroot].start = ToTime(1)
    /\ target[ev[1].chroot].status = pre[1].target[ev[1].chroot].status
    /\ Len(reports) = pre[1].reports

\* C22: when two workers process the same start callback of a binary target
\* concurrently, the guard on the start time ensures that "RPM build is in
\* progress..." is reported to the target's check run at most once and that
\* the counter of started builds goes up at most once.
ConcurrentStartOnce ==
    (/\ ev[1] = ev[2]
     /\ ev[1].kind = "start" /\ ev[1].known /\ ev[1].chroot \in Targets)
       => /\ Cardinality({i \in 1..Len(reports) :
                            /\ reports[i].check = BuildCheck(ev[1].chroot)
                            /\ reports[i].state = StRunning
                            /\ reports[i].desc = "RPM build is in progress..."})
               <= 1
          /\ counters.started <= 1

\* A successful end callback of the SRPM chroot went through run() to its
\* return, on an SRPM record that was neither success nor failure.
SrpmSuccDone(w) ==
    /\ EndDone(w)
    /\ ev[w].chroot = COPR_SRPM_CHROOT
    /\ ev[w].status = COPR_API_SUCC_STATE
    /\ result[w] # "raised"
    /\ ~IsFinalState(pre[w].srpm.status)

\* C23: after a successful end callback of the SRPM chroot has been processed
\* on an SRPM record that was not final, the SRPM record is success, no
\* target of the build is waiting for the SRPM (each one that was waiting is
\* pending), "SRPM build succeeded..." has been reported with state running
\* to the build check runs (to all check runs with status sync), and the
\* result is a success.
SrpmSuccess ==
    \A w \in SeqWorkers :
       SrpmSuccDone(w) =>
          /\ srpm.status = Success
          /\ \A t \in Targets :
                /\ target[t].status # WaitingForSrpm
                /\ pre[w].target[t].status = WaitingForSrpm
                      => target[t].status = Pending
          /\ \E checks \in {ChecksAll, ChecksBuild} :
                ReportedSince(w) =
                  Report(checks, StRunning,
                         "SRPM build succeeded. Waiting for RPM build to start...",
                         "srpm-info")
          /\ result[w] = "success"

\* The SRPM build succeeded while every target was waiting for it: all the
\* targets are pending.
SrpmSuccessWitness ==
    /\ SrpmSuccDone(1)
    /\ \A t \in Targets : pre[1].target[t].status = WaitingForSrpm
    /\ \A t \in Targets : target[t].status = Pending
    /\ srpm.status = Success
    /\ Len(reports) > pre[1].reports

\* A start callback was accepted: run() went past its guards (record known,
\* no start time, not final) to its return.
StartAccepted(w) ==
    /\ RunDone(w)
    /\ ev[w].kind = "start"
    /\ ev[w].known
    /\ result[w] = "success"
    /\ PreBuildOf(w).start = None
    /\ ~IsFinalState(PreBuildOf(w).status)

\* The check runs the run has reported to, and the states it reported.
CheckedSince(w) == {ReportedSince(w)[i].check : i \in 1..Len(ReportedSince(w))}
StatesSince(w) == {ReportedSince(w)[i].state : i \in 1..Len(ReportedSince(w))}

\* C24: an accepted start callback of the SRPM chroot reports state running
\* to the build check run of every target and, exactly when the status sync
\* is enabled, to every test check run as well; an accepted start callback
\* of a binary target reports state running to the build check run of its
\* own chroot and, exactly when the status sync is enabled, to the test
\* check run of that chroot, and to no check run of another target.
StartReportRouting ==
    \A w \in SeqWorkers :
       StartAccepted(w) =>
          /\ StatesSince(w) = {StRunning}
          /\ IF ev[w].chroot = COPR_SRPM_CHROOT
             THEN CheckedSince(w) =
                    {BuildCheck(t) : t \in Targets} \cup
                    IF loc[w].sync THEN {TestCheck(t) : t \in Targets} ELSE {}
             ELSE /\ CheckedSince(w) =
                       {BuildCheck(ev[w].chroot)} \cup
                       IF loc[w].sync THEN {TestCheck(ev[w].chroot)} ELSE {}
                  /\ \A c \in CheckedSince(w) : c.chroot = ev[w].chroot

\* A start callback of a binary target was accepted without status sync: one
\* report, to the build check run of the chroot.
StartReportRoutingWitness ==
    /\ StartAccepted(1)
    /\ ev[1].chroot = OtherTarget
    /\ ~loc[1].sync
    /\ ReportedSince(1) =
         Report(<<BuildCheck(OtherTarget)>>, StRunning,
                "RPM build is in progress...", "build-info")

\* What the run has reported to the build and test check runs.
BuildReportsSince(w) ==
    {r \in {ReportedSince(w)[i] : i \in 1..Len(ReportedSince(w))} :
       r.check.kind \in {"rpm-build", "testing-farm"}}

\* C25: a successful end callback of a binary target reports state success to
\* the build check run of its chroot and to no other build or test check
\* run; the test check run of the chroot is reported pending exactly when the
\* status sync is enabled, and is never reported success.
SuccessReporting ==
    \A w \in SeqWorkers :
       SuccessRunDone(w) =>
          /\ {r.check : r \in {x \in BuildReportsSince(w) : x.state = StSuccess}}
               = {BuildCheck(ev[w].chroot)}
          /\ {r \in BuildReportsSince(w) : r.check.kind = "testing-farm"}
               = IF loc[w].sync
                 THEN {[check |-> TestCheck(ev[w].chroot), state |-> StPending,
                        desc |-> "RPMs were built successfully.",
                        url |-> "build-info"]}
                 ELSE {}
          /\ \A r \in BuildReportsSince(w) : r.check.chroot = ev[w].chroot

\* A successful build end with the status sync enabled: success to the build
\* check run, pending to the test check run of the same chroot.
SuccessReportingWitness ==
    /\ SuccessRunDone(1)
    /\ loc[1].sync
    /\ \E r \in BuildReportsSince(1) :
          r.check = TestCheck(ev[1].chroot) /\ r.state = StPending
    /\ \E r \in BuildReportsSince(1) :
          r.check = BuildCheck(ev[1].chroot) /\ r.state = StSuccess

\* C26: the congratulatory comment is posted only by report_successful_build
\* of a successful end callback of a binary target, and only if the build
\* job exists and is triggered by pull requests, the event has a pull
\* request id, the project is a GitHub or GitLab project and the
\* notification of successful builds is enabled; whatever the four are, the
\* statement after it reports the success to the build check run.
CommentGating ==
    [][\A w \in SeqWorkers :
          /\ (pc[w] = "end_succ_comment" /\ pc'[w] = "end_succ_report") =>
                /\ ev[w].kind = "end" /\ ev[w].chroot \in Targets
                /\ ev[w].status = COPR_API_SUCC_STATE
                /\ IF /\ loc'[w].gate.job_build_pr /\ loc'[w].gate.pr_id
                      /\ loc'[w].gate.forge /\ loc'[w].gate.notify
                   THEN comments' \in {comments, Append(comments, CongratsMsg)}
                   ELSE comments' = comments
          /\ (pc[w] # "end_succ_comment" \/ pc'[w] # "end_succ_report") =>
                comments' = comments
          /\ (pc[w] = "end_succ_report" /\ pc'[w] = "end_succ_sync") =>
                reports' = reports \o
                  Report(<<BuildCheck(ev[w].chroot)>>, StSuccess,
                         "RPMs were built successfully.", "build-info")
          /\ (pc[w] = "end_succ_report" /\ pc'[w] # "end_succ_sync") =>
                (pc'[w] = "done" /\ result'[w] = "raised")]_vars

\* The notification preference is off, the other three hold: no comment was
\* posted and the run is about to report the success.
CommentGatingWitness ==
    /\ pc[1] = "end_succ_report"
    /\ loc[1].gate = [job_build_pr |-> TRUE, pr_id |-> TRUE, forge |-> TRUE,
                      notify |-> FALSE]
    /\ comments = <<>>

\* The run of worker w handles a successful end callback of a binary target
\* and has reported the success to the build check run of the chroot.
SuccessReported(w) ==
    /\ ev[w].kind = "end" /\ ev[w].known
    /\ ev[w].chroot \in Targets
    /\ ev[w].status = COPR_API_SUCC_STATE
    /\ \E i \in (pre[w].reports + 1)..Len(reports) :
          /\ reports[i].check = BuildCheck(ev[w].chroot)
          /\ reports[i].state = StSuccess

\* C27: in the handling of a successful end callback of a binary target the
\* success report comes before the target is set to success, that before
\* every test job is enqueued, and those before the scan orchestrator is
\* called; a test job is enqueued and the scan is called only while the
\* target is success, and never for a failed end callback or an end callback
\* of the SRPM chroot.
SuccessOrdering ==
    [][\A w \in SeqWorkers :
          /\ (\E t \in Targets :
                 target[t].status # Success /\ target'[t].status = Success)
                => /\ SuccessReported(w)
                   /\ target'[ev[w].chroot].status = Success
                   /\ Len(tasks) = pre[w].tasks
                   /\ pc[w] \notin ScanPcs
          /\ tasks' # tasks
                => /\ SuccessReported(w)
                   /\ target[ev[w].chroot].status = Success
                   /\ pc[w] \notin ScanPcs
          /\ (pc[w] \notin ScanPcs /\ pc'[w] \in ScanPcs)
                => /\ SuccessReported(w)
                   /\ target[ev[w].chroot].status = Success
          /\ pc[w] \in ScanPcs => tasks' = tasks]_vars

\* The scan orchestrator is at work for a target that is success, after a
\* test job was enqueued by the same run.
SuccessOrderingWitness ==
    /\ pc[1] \in ScanPcs
    /\ SuccessReported(1)
    /\ target[ev[1].chroot].status = Success
    /\ Len(tasks) > pre[1].tasks

\* C28: over any sequence of callbacks the list of built packages of a target
\* is recorded only while a successful end callback of that target is
\* handled, and once recorded it is never written again.
BuiltPackagesSetOnce ==
    [][\A t \in Targets :
          target'[t].built # target[t].built
             => /\ target[t].built = None
                /\ \E w \in SeqWorkers :
                      /\ ev[w].kind = "end" /\ ev[w].chroot = t
                      /\ ev[w].status = COPR_API_SUCC_STATE]_vars

\* C29: the url of the SRPM record is written only by set_srpm_url of an end
\* callback (of the SRPM chroot or of a binary target, whatever its status),
\* only while the url is unset and with the non-null url the build service
\* returned; once the url is set no step changes it and set_srpm_url does
\* not ask the build service for it.
SrpmUrlCachedOnce ==
    [][\A w \in SeqWorkers :
          /\ srpm'.url # srpm.url
                => /\ srpm.url = None
                   /\ pc[w] = "end_set_srpm_url"
                   /\ ev[w].kind = "end"
                   /\ srpm'.url = loc[w].fetched
                   /\ srpm'.url # None
          /\ (srpm.url # None /\ pc[w] = "end_get_srpm_url")
                => /\ loc'[w].fetched = loc[w].fetched
                   /\ pc'[w] # "end_set_srpm_url"
          /\ (pc[w] = "end_get_srpm_url" /\ pc'[w] = "end_set_srpm_url")
                => (srpm.url = None /\ loc'[w].fetched # None)]_vars

\* An end callback was handled, past set_srpm_url, after an earlier end
\* callback had stored the url: the url is the one stored then.
SrpmUrlCachedOnceWitness ==
    /\ EndDone(1)
    /\ ~IsFinalState(PreBuildOf(1).status)
    /\ result[1] # "raised"
    /\ pre[1].srpm.url = "head-srpm-url"
    /\ srpm.url = "head-srpm-url"

\* C30: the status of a record becomes success or failure only in a step of
\* the handling of an end callback of the record's own build and chroot: no
\* start callback, and no end callback of another chroot (a failed end of
\* the SRPM chroot included), takes a record to success or failure.
TerminalOnlyByOwnEnd ==
    [][\A w \in SeqWorkers :
          /\ (srpm'.status # srpm.status /\ IsFinalState(srpm'.status))
                => /\ ev[w].kind = "end" /\ ev[w].known
                   /\ ev[w].chroot = COPR_SRPM_CHROOT
          /\ \A t \in Targets :
                (target'[t].status # target[t].status
                 /\ IsFinalState(target'[t].status))
                   => /\ ev[w].kind = "end" /\ ev[w].known
                      /\ ev[w].chroot = t]_vars

\* The SRPM build has failed and its end callback was handled: the SRPM
\* record is failure and the targets still wait.
TerminalOnlyByOwnEndWitness ==
    /\ SrpmFailDone(1)
    /\ pre[1].srpm.status # Failure
    /\ srpm.status = Failure
    /\ \A t \in Targets : target[t].status = WaitingForSrpm

\* C31: the handling of an end callback of a binary target never ends with an
\* exception leaving run(): when an external call of the primary path raises
\* (the build service asked for the url of the source package or for the
\* built packages, the forge asked to post the comment or a status), the
\* handling ends with a result object (a failure result, after a failure
\* report).
PrimaryFailureHandled ==
    \A w \in SeqWorkers :
       (/\ pc[w] = "done"
        /\ ev[w].kind = "end" /\ ev[w].known
        /\ ev[w].chroot \in Targets)
          => result[w] \in {"success", "failure"}

RECURSIVE EmbedsJsonFrom(_, _, _)
\* The output from position i on, read at nesting depth d, is free text with
\* JSON objects embedded in it: braces balance and free text stands only
\* outside the objects.
EmbedsJsonFrom(out, i, d) ==
    IF i > Len(out) THEN d = 0
    ELSE CASE out[i] = "{" -> EmbedsJsonFrom(out, i + 1, d + 1)
           [] out[i] = "}" -> d > 0 /\ EmbedsJsonFrom(out, i + 1, d - 1)
           [] out[i] = "t" -> d = 0 /\ EmbedsJsonFrom(out, i + 1, d)
           [] OTHER -> d > 0 /\ EmbedsJsonFrom(out, i + 1, d)

\* The url of the object that is opened last in the output, None when the
\* output has no object.
LastObjectUrl(out) ==
    LET opens == {i \in 1..Len(out) : out[i] = "{"} IN
    IF opens = {} THEN None
    ELSE LET open == CHOOSE i \in opens : \A j \in opens : j <= i
             close == FirstClose(out, open + 1)
         IN LastUrl(SubSeq(out, open + 1, close - 1), close - open - 1)

\* C32: for an output that is free text with any number of embedded JSON
\* objects, parse_dict_from_output returns the object that appears last (the
\* empty mapping when there is none) without raising, so the url it gives is
\* the url of the last object.
LastObjectWins ==
    \A w \in SeqWorkers :
       (/\ ScanRunDone(w)
        /\ Len(loc[w].sub) = 1
        /\ loc[w].output # <<>>
        /\ EmbedsJsonFrom(loc[w].output, 1, 0))
          => LET response_dict == parse_dict_from_output(loc[w].output) IN
             /\ ~response_dict.raised
             /\ response_dict.url = LastObjectUrl(loc[w].output)

\* C33: when the end callbacks of the SRPM chroot and of a binary target have
\* been delivered and processed, in either order, the target record holds the
\* terminal status its own end callback carried and holds it for good.  At
\* the end of a behaviour (no delivery is left) whose last run was the
\* successful end callback of the SRPM chroot, a target that its own end
\* callback had made success or failure before still has that status.
EventualTerminalStatus ==
    \A w \in SeqWorkers : \A t \in Targets :
       (/\ SrpmSuccDone(w)
        /\ budget = 0
        /\ IsFinalState(pre[w].target[t].status))
          => target[t].status = pre[w].target[t].status

\* How many reports of a finished build the build check of the target got.
TerminalReports(t) ==
    Cardinality({i \in 1..Len(reports) :
                   /\ reports[i].check = BuildCheck(t)
                   /\ reports[i].desc \in {"RPMs were built successfully.",
                                           "RPMs failed to be built."}})

\* C34: over deliveries of a binary target's end callback processed one after
\* the other, in which an external call may raise and abort the handling, the
\* success or failure of the target is reported to its build check at most
\* once.
AtMostOnceTerminalReport ==
    \A t \in Targets : TerminalReports(t) <= 1

\* C35: once a handling of the successful end callback of a binary target has
\* completed without an exception and the target is success, every
\* qualifying test job of the target has been enqueued, also when an earlier
\* handling raised while it was enqueuing the test jobs.
EventualFanOut ==
    \A w \in SeqWorkers :
       (/\ EndDone(w)
        /\ ev[w].chroot \in Targets
        /\ ev[w].status = COPR_API_SUCC_STATE
        /\ result[w] = "success"
        /\ target[ev[w].chroot].status = Success)
          => \A j \in FanOutJobs(TestJobs, {"ready"}, ev[w].chroot) :
                \E i \in 1..Len(tasks) :
                   /\ tasks[i].job = j
                   /\ tasks[i].build_id = ev[w].chroot

\* handle_pull_request has looked the author up among the users who can
\* merge.
AuthorChecked(w) ==
    /\ ev[w].kind = "pull_request"
    /\ pc[w] \notin {"idle", "gh_run", "gh_collaborators"}

\* C36: when the author of the pull request is not among the users who can
\* merge, handle_pull_request sets a failure status on the build check and
\* returns a failure result; it reports no pending status, submits no build,
\* watches none and does not run the testing farm handler.
NonCollaboratorRejected ==
    \A w \in SeqWorkers :
       (AuthorChecked(w) /\ ~loc[w].gh.collaborator)
          => /\ pc[w] = "done"
             /\ result[w] = "failure"
             /\ ReportedSince(w) =
                  Report(<<GithubBuildCheck>>, StFailure,
                         "Only collaborators can trigger Packit-as-a-Service", "")
             /\ Len(comments) = pre[w].comments
             /\ loc[w].gh.submitted = 0
             /\ loc[w].gh.build_id = None
             /\ ~loc[w].gh.watched
             /\ ~loc[w].gh.tf
             /\ loc[w].gh.requests = <<>>

\* A pull request of an author who cannot merge has been handled.
NonCollaboratorRejectedWitness ==
    \E w \in SeqWorkers :
       /\ AuthorChecked(w)
       /\ ~loc[w].gh.collaborator
       /\ pc[w] = "done"

\* run_copr_build has been called and has returned or raised.
SubmissionDone(w) ==
    /\ AuthorChecked(w)
    /\ loc[w].gh.collaborator
    /\ pc[w] # "gh_submit"

\* C37: for a collaborator the first report is the pending report "RPM build
\* has just started..." on the build check, and the build is submitted once.
\* When the submission raises (SRPM timeout, failed sandbox command, failed
\* SRPM creation, any other exception) the handler ends with exactly one
\* failure report on the build check after the pending one and a failure
\* result; no build id is stored, the build is not watched and the testing
\* farm handler does not run.
SubmissionFailureReported ==
    \A w \in SeqWorkers :
       SubmissionDone(w) =>
          /\ loc[w].gh.submitted = 1
          /\ Len(ReportedSince(w)) >= 1
          /\ <<ReportedSince(w)[1]>> =
               Report(<<GithubBuildCheck>>, StPending,
                      "RPM build has just started...", "")
          /\ loc[w].gh.outcome # "build_id" =>
                /\ pc[w] = "done"
                /\ result[w] = "failure"
                /\ Len(ReportedSince(w)) = 2
                /\ ReportedSince(w)[2].check = GithubBuildCheck
                /\ ReportedSince(w)[2].state = StFailure
                /\ ReportedSince(w)[2].desc \in
                     {"Timeout reached while creating a SRPM.",
                      "Failed to create a SRPM.",
                      "There was an error while running the build: {ex}"}
                /\ loc[w].gh.build_id = None
                /\ ~loc[w].gh.watched
                /\ ~loc[w].gh.tf
                /\ loc[w].gh.requests = <<>>

\* The submission of a collaborator's build has raised and the handler has
\* returned.
SubmissionFailureReportedWitness ==
    \E w \in SeqWorkers :
       /\ SubmissionDone(w)
       /\ loc[w].gh.outcome = "SandcastleCommandFailed"
       /\ pc[w] = "done"

\* C38: run() of the build handler returns a result object for every
\* outcome: in a run that no exception left, the result is a success or a
\* failure result, a watched build that finished in a state other than
\* succeeded gives a failure result, and the testing farm handler has run
\* only if the build succeeded and a tests job is configured.
BuildRunReturnsResult ==
    \A w \in SeqWorkers :
       (/\ pc[w] = "done"
        /\ ev[w].kind \in {"pull_request", "release"}
        /\ result[w] # "raised")
          => /\ result[w] \in {"success", "failure"}
             /\ (loc[w].gh.watched /\ loc[w].gh.build_state # "succeeded")
                   => result[w] = "failure"
             /\ loc[w].gh.tf =>
                   /\ loc[w].gh.build_state = "succeeded"
                   /\ loc[w].gh.chroots # <<>>

\* What the run has reported to the testing farm checks.
TestingFarmReports(w) ==
    SelectSeq(ReportedSince(w),
              LAMBDA r : r.check.kind = "PRCheckName.get_testing_farm_check")

\* The testing farm handler has run to its end and every request got a
\* response.
TestingFarmDone(w) ==
    /\ ev[w].kind = "pull_request"
    /\ pc[w] = "done"
    /\ loc[w].gh.tf
    /\ loc[w].gh.tf_result # "ConnectionError"

\* C39: the testing farm handler sends one request per chroot in configured
\* order.  At the first chroot whose response is falsy or has a status other
\* than 200 it reports failure on the check of that chroot and returns a
\* failure result, having sent no request for a later chroot and leaving the
\* earlier chroots with their pending report "Tests are running ..."; it
\* returns a success result only if every request returned 200.
TestingFarmFirstFailureStops ==
    \A w \in SeqWorkers :
       TestingFarmDone(w) =>
          LET chroots == loc[w].gh.chroots
              n == Len(loc[w].gh.requests)
              req == loc[w].gh.req
              r == TestingFarmReports(w)
          IN /\ n <= Len(chroots)
             /\ loc[w].gh.requests = SubSeq(chroots, 1, n)
             /\ (n > 0 /\ (req.falsy \/ req.status_code # 200)) =>
                   /\ loc[w].gh.tf_result = "failure"
                   /\ Len(r) = n
                   /\ r[n].check = GithubTestingFarmCheck(chroots[n])
                   /\ r[n].state = StFailure
                   /\ \A k \in 1..(n - 1) :
                         /\ r[k].check = GithubTestingFarmCheck(chroots[k])
                         /\ r[k].state = StPending
                         /\ r[k].desc = "Tests are running ..."
             /\ loc[w].gh.tf_result = "success" =>
                   /\ n = Len(chroots)
                   /\ Len(r) = n
                   /\ \A k \in 1..n :
                         /\ r[k].check = GithubTestingFarmCheck(chroots[k])
                         /\ r[k].state = StPending

====
